---- MODULE Spec2Model ----
(***************************************************************************)
(* A model of py_rw5: the Carlson RW5 line scanner (Rw5Parser), the record *)
(* variants with their machine-state threading, the dataset aggregator     *)
(* (Rw5Data) and the STAR*NET encoder (Rw5ToDatConverter).                 *)
(*                                                                         *)
(* Text is modelled as TLA+ strings and the Python string primitives the   *)
(* code uses (find, slicing, strip, split, replace) are operators with the *)
(* Python semantics, 0-based.  None is <<>> and a present value v is <<v>>.*)
(***************************************************************************)
EXTENDS Integers, Sequences, FiniteSets, TLC

\* ------------------------------------------------------------------------
\* Bounds of the model
\* ------------------------------------------------------------------------
\* longest input file of the general specification
MaxLines == 4
\* most record lines of an input file of the survey specification
MaxSurveyRecords == 6
\* the most blocks (a record line and its notes) after the setup lines of a
\* file of SpecPoints, and after the job line of a file of SpecMalformed
MaxPointBlocks == 3
MaxMalformedBlocks == 3
MaxSubstituteBlocks == 3

None == <<>>
Some(v) == <<v>>
Val(o) == o[1]

Max(a, b) == IF a > b THEN a ELSE b

\* ------------------------------------------------------------------------
\* Python str primitives
\* ------------------------------------------------------------------------
\* an index of s[a:b] as a position 0..n: negative indices count from the end
Clip(i, n) ==
    IF i < 0 THEN (IF i + n < 0 THEN 0 ELSE i + n) ELSE (IF i > n THEN n ELSE i)

\* s[a:b]
Slice(s, a, b) == SubSeq(s, Clip(a, Len(s)) + 1, Clip(b, Len(s)))

\* s[a:]
SliceFrom(s, a) == Slice(s, a, Len(s))

\* s[i]
CharAt(s, i) == SubSeq(s, i + 1, i + 1)

\* s.startswith(p)
StartsWith(s, p) == Len(p) <= Len(s) /\ SubSeq(s, 1, Len(p)) = p

\* the lowest member of a set of indices, or -1
Lowest(hits) == IF hits = {} THEN -1 ELSE CHOOSE i \in hits : \A j \in hits : i <= j

\* the lowest index i >= start with s[i:i+len(sub)] == sub, or -1
FindFrom(s, sub, start) ==
    Lowest({i \in start..(Len(s) - Len(sub)) : SubSeq(s, i + 1, i + Len(sub)) = sub})

\* s.find(sub, start); a negative start counts from the end
FindAt(s, sub, start) == FindFrom(s, sub, Clip(start, Len(s)))

\* s.find(sub)
Find(s, sub) == FindFrom(s, sub, 0)

\* sub in s
Contains(s, sub) == Find(s, sub) # -1

WhiteSpace == {" ", "\n", "\t", "\r"}

\* s from the first to the last of the positions kept
Between(s, kept) ==
    IF kept = {} THEN ""
    ELSE SubSeq(s, Lowest(kept), CHOOSE i \in kept : \A j \in kept : i >= j)

\* s.strip()
Strip(s) == Between(s, {i \in 1..Len(s) : SubSeq(s, i, i) \notin WhiteSpace})

\* s.removeprefix(p)
RemovePrefix(s, p) == IF StartsWith(s, p) THEN SliceFrom(s, Len(p)) ELSE s

\* s.split(sep)[0]
SplitFirst(s, sep) == IF Contains(s, sep) THEN Slice(s, 0, Find(s, sep)) ELSE s

RECURSIVE ReplaceFrom(_, _, _)
ReplaceFrom(s, old, new) ==
    IF Len(old) = 0
    THEN IF Len(s) = 0 THEN new
         ELSE new \o SubSeq(s, 1, 1) \o ReplaceFrom(Tail(s), old, new)
    ELSE LET i == Find(s, old)
         IN  IF i = -1 THEN s
             ELSE Slice(s, 0, i) \o new
                  \o ReplaceFrom(SliceFrom(s, i + Len(old)), old, new)

\* s.replace(old, new)
Replace(s, old, new) == ReplaceFrom(s, old, new)

\* s.zfill(w), s.ljust(w), s.rjust(w)
RECURSIVE Repeat(_, _)
Repeat(c, n) == IF n <= 0 THEN "" ELSE c \o Repeat(c, n - 1)
ZFill(s, w) == Repeat("0", w - Len(s)) \o s
LJust(s, w) == s \o Repeat(" ", w - Len(s))
LJustWith(s, w, c) == s \o Repeat(c, w - Len(s))
RJust(s, w) == Repeat(" ", w - Len(s)) \o s

\* ------------------------------------------------------------------------
\* Python numbers: int(...), str(int), decimal.Decimal
\* ------------------------------------------------------------------------
Digits == {"0", "1", "2", "3", "4", "5", "6", "7", "8", "9"}

DigitVal(c) ==
    CASE c = "0" -> 0 [] c = "1" -> 1 [] c = "2" -> 2 [] c = "3" -> 3
      [] c = "4" -> 4 [] c = "5" -> 5 [] c = "6" -> 6 [] c = "7" -> 7
      [] c = "8" -> 8 [] c = "9" -> 9

DigitChar(d) == SubSeq("0123456789", d + 1, d + 1)

AllDigits(s) == \A i \in 1..Len(s) : SubSeq(s, i, i) \in Digits

IsDigits(s) == Len(s) > 0 /\ AllDigits(s)

RECURSIVE NatOf(_)
NatOf(s) ==
    IF Len(s) = 0 THEN 0
    ELSE NatOf(SubSeq(s, 1, Len(s) - 1)) * 10 + DigitVal(SubSeq(s, Len(s), Len(s)))

HasSign(s) == Len(s) > 0 /\ SubSeq(s, 1, 1) \in {"+", "-"}
Unsigned(s) == IF HasSign(s) THEN Tail(s) ELSE s
SignOf(s) == IF Len(s) > 0 /\ SubSeq(s, 1, 1) = "-" THEN -1 ELSE 1

\* int(s) succeeds
IntOk(s) == IsDigits(Unsigned(Strip(s)))

\* int(s), for the text s without surrounding white space
IntOfStripped(t) == SignOf(t) * NatOf(Unsigned(t))

\* int(s)
IntOf(s) == IntOfStripped(Strip(s))

RECURSIVE NatToStr(_)
NatToStr(n) ==
    IF n < 10 THEN DigitChar(n) ELSE NatToStr(n \div 10) \o DigitChar(n % 10)

\* str(n)
IntToStr(n) == IF n < 0 THEN "-" \o NatToStr(-n) ELSE NatToStr(n)

RECURSIVE Pow10(_)
Pow10(k) == IF k <= 0 THEN 1 ELSE 10 * Pow10(k - 1)

\* A Decimal is [coef, exp]: the value coef * 10^-exp, with the digits the
\* text had (Decimal("1.50") is [150, 2]); exp is the number of fraction digits.
\* Decimal(s) succeeds: an optional sign, digits with at most one point
DecimalOk(s) ==
    \E u \in {Unsigned(Strip(s))} :
        \E i \in {Find(u, ".")} :
            IF i = -1 THEN IsDigits(u)
            ELSE /\ AllDigits(Slice(u, 0, i))
                 /\ AllDigits(SliceFrom(u, i + 1))
                 /\ Len(u) > 1

\* Decimal(s), for the sign and the unsigned text u with its point at i
DecimalOfDigits(sign, u, i) ==
    IF i = -1 THEN [coef |-> sign * NatOf(u), exp |-> 0]
    ELSE [coef |-> sign * NatOf(Slice(u, 0, i) \o SliceFrom(u, i + 1)),
          exp  |-> Len(u) - i - 1]

\* Decimal(s), for the text s without surrounding white space
DecimalOfStripped(t) == DecimalOfDigits(SignOf(t), Unsigned(t), Find(Unsigned(t), "."))

\* Decimal(s)
DecimalOf(s) == DecimalOfStripped(Strip(s))

\* a == b on Decimals
DecimalEq(a, b) ==
    a.coef * Pow10(b.exp - a.exp) = b.coef * Pow10(a.exp - b.exp)

\* n rounded to a multiple of m (m > 0), ties to the even multiple, over m
RoundHalfEven(n, m) ==
    LET a == IF n < 0 THEN -n ELSE n
        q == a \div m
        r == a % m
        up == 2 * r > m \/ (2 * r = m /\ q % 2 = 1)
        v == IF up THEN q + 1 ELSE q
    IN  IF n < 0 THEN -v ELSE v

\* round(d, places) on a Decimal: quantize, ROUND_HALF_EVEN
DecimalRound(d, places) ==
    IF d.exp <= places
    THEN [coef |-> d.coef * Pow10(places - d.exp), exp |-> places]
    ELSE [coef |-> RoundHalfEven(d.coef, Pow10(d.exp - places)), exp |-> places]

\* str(d) on a Decimal
DecimalToStr(d) ==
    LET a == IF d.coef < 0 THEN -d.coef ELSE d.coef
        sgn == IF d.coef < 0 THEN "-" ELSE ""
    IN  IF d.exp = 0 THEN sgn \o NatToStr(a)
        ELSE sgn \o NatToStr(a \div Pow10(d.exp)) \o "."
                 \o ZFill(NatToStr(a % Pow10(d.exp)), d.exp)

\* ------------------------------------------------------------------------
\* float (the IEEE 754 double of Python).  The doubles that the arithmetic of
\* dms.py meets are multiples of 2^-75 below 2^15, so a double is kept as
\* its sign and its magnitude in units of 2^-75, the magnitude as five
\* limbs of 18 bits, the lowest first.  Every operation computes the exact
\* result and rounds it to the 53 significant bits of a double, ties to
\* even, as the hardware does.
\* ------------------------------------------------------------------------
LimbBits == 18
Limb == 2 ^ LimbBits
Limbs == 5
FractionBits == 75
MantissaBits == 53

\* the magnitude 0, and the magnitude of the whole number n: n * 2^75
MagZero == [i \in 1..Limbs |-> 0]
MagOfInt(n) == [i \in 1..Limbs |-> IF i = Limbs THEN n * 8 ELSE 0]

\* the whole part of a magnitude, and whether it has a fraction
MagWhole(x) == x[Limbs] \div 8

\* bit i of a magnitude, the lowest being bit 0
MagBit(x, i) == (x[(i \div LimbBits) + 1] \div (2 ^ (i % LimbBits))) % 2

\* some bit of the magnitude below bit i is set
MagBelow(x, i) ==
    \/ \E k \in 1..(i \div LimbBits) : x[k] # 0
    \/ x[(i \div LimbBits) + 1] % (2 ^ (i % LimbBits)) # 0

\* the number of bits of n < 2^18, and of a magnitude
BitLength(n) == CHOOSE k \in 0..LimbBits : n < 2 ^ k /\ (k = 0 \/ 2 ^ (k - 1) <= n)
MagTop(x) == CHOOSE t \in 0..Limbs : (t = 0 \/ x[t] # 0) /\ \A k \in (t + 1)..Limbs : x[k] = 0
MagLength(x, t) == IF t = 0 THEN 0 ELSE LimbBits * (t - 1) + BitLength(x[t])

\* x < y, x + y and x - y (for x >= y) on magnitudes
MagLess(x, y) ==
    \E t \in 1..Limbs : x[t] < y[t] /\ \A k \in (t + 1)..Limbs : x[k] = y[k]

MagCarry(x, y) ==
    LET c[i \in 1..Limbs] == IF i = 1 THEN 0 ELSE (x[i - 1] + y[i - 1] + c[i - 1]) \div Limb
    IN  c

MagAddWith(x, y, c) == [i \in 1..Limbs |-> (x[i] + y[i] + c[i]) % Limb]
MagAdd(x, y) == MagAddWith(x, y, MagCarry(x, y))

MagBorrow(x, y) ==
    LET b[i \in 1..Limbs] == IF i = 1 THEN 0 ELSE IF x[i - 1] - y[i - 1] - b[i - 1] < 0 THEN 1 ELSE 0
    IN  b

MagSubWith(x, y, b) == [i \in 1..Limbs |-> (x[i] - y[i] - b[i] + Limb) % Limb]
MagSub(x, y) == MagSubWith(x, y, MagBorrow(x, y))

\* x * c for a whole number c < 2^12
MagMulCarry(x, c) ==
    LET k[i \in 1..Limbs] == IF i = 1 THEN 0 ELSE (x[i - 1] * c + k[i - 1]) \div Limb
    IN  k

MagMulWith(x, c, k) == [i \in 1..Limbs |-> (x[i] * c + k[i]) % Limb]
MagMul(x, c) == MagMulWith(x, c, MagMulCarry(x, c))

\* x \div c and x % c for a whole number c < 2^12: r[i] is the remainder
\* that comes down to limb i
MagDivRem(x, c) ==
    LET r[i \in 1..(Limbs + 1)] == IF i = Limbs + 1 THEN 0 ELSE (r[i + 1] * Limb + x[i]) % c
    IN  r

MagDivWith(x, c, r) == [i \in 1..Limbs |-> (r[i + 1] * Limb + x[i]) \div c]

\* the magnitude x, of which bits below the units are lost when sticky,
\* rounded to 53 significant bits where it has length > 53: the bits below
\* bit q = length - 53 go, and 2^q is added when they are more than half of
\* it, or half of it and bit q is set
MagCleared(x, q) ==
    [i \in 1..Limbs |->
        IF i < (q \div LimbBits) + 1 THEN 0
        ELSE IF i = (q \div LimbBits) + 1 THEN x[i] - (x[i] % (2 ^ (q % LimbBits)))
        ELSE x[i]]

MagPow(q) ==
    [i \in 1..Limbs |-> IF i = (q \div LimbBits) + 1 THEN 2 ^ (q % LimbBits) ELSE 0]

MagRoundAt(x, sticky, q) ==
    IF q <= 0 THEN x
    ELSE IF MagBit(x, q - 1) = 1 /\ (sticky \/ MagBelow(x, q - 1) \/ MagBit(x, q) = 1)
    THEN MagAdd(MagCleared(x, q), MagPow(q))
    ELSE MagCleared(x, q)

MagRound(x, sticky) == MagRoundAt(x, sticky, MagLength(x, MagTop(x)) - MantissaBits)

\* a float: its sign and its magnitude
Float(neg, mag) == [neg |-> neg, mag |-> mag]

\* float(n) of a whole number n >= 0
FloatOfInt(n) == Float(FALSE, MagOfInt(n))

\* x / c on floats, c a whole number: the quotient, rounded
FloatDivWith(x, c, r) == Float(x.neg, MagRound(MagDivWith(x.mag, c, r), r[1] # 0))
FloatDiv(x, c) == FloatDivWith(x, c, MagDivRem(x.mag, c))

\* x * c on floats, c a whole number
FloatMul(x, c) == Float(x.neg, MagRound(MagMul(x.mag, c), FALSE))

\* x + y and x - y on floats
FloatAdd(x, y) ==
    IF x.neg = y.neg THEN Float(x.neg, MagRound(MagAdd(x.mag, y.mag), FALSE))
    ELSE IF MagLess(x.mag, y.mag) THEN Float(y.neg, MagRound(MagSub(y.mag, x.mag), FALSE))
    ELSE Float(x.neg /\ x.mag # y.mag, MagRound(MagSub(x.mag, y.mag), FALSE))

FloatSub(x, y) == FloatAdd(x, Float(~y.neg, y.mag))

\* x < 0
FloatNegative(x) == x.neg /\ x.mag # MagZero

\* int(x): towards zero
FloatInt(x) == IF x.neg THEN -MagWhole(x.mag) ELSE MagWhole(x.mag)

\* round(x): to the nearest whole number, ties to the even one
MagNearest(x) ==
    IF MagBit(x, FractionBits - 1) = 1
       /\ (MagBelow(x, FractionBits - 1) \/ MagWhole(x) % 2 = 1)
    THEN MagWhole(x) + 1
    ELSE MagWhole(x)

FloatRound(x) == IF x.neg THEN -MagNearest(x.mag) ELSE MagNearest(x.mag)

\* float of a whole number of either sign
FloatOfSigned(n) == IF n < 0 THEN Float(TRUE, MagOfInt(-n)) ELSE FloatOfInt(n)

\* ------------------------------------------------------------------------
\* DMS (dms.py).  seconds is kept in hundredths of a second, so that
\* DMS(315, 0, 0.44) is [degrees |-> 315, minutes |-> 0, seconds |-> 44]
\* and a whole second is SecUnit; the arithmetic of dd and from_degrees is
\* the one of floats.
\* ------------------------------------------------------------------------
SecUnit == 100

DMS(d, m, s) == [degrees |-> d, minutes |-> m, seconds |-> s]

\* (part1, rest) = string.split(".", maxsplit=1); part2 = rest[:2];
\* part3 = rest[2:4]: int() raises ValueError on an empty or non-numeric part
DMS_parts_ok(part1, rest) ==
    IntOk(part1) /\ IntOk(Slice(rest, 0, 2)) /\ IntOk(Slice(rest, 2, 4))

DMS_from_parts(part1, rest) ==
    DMS(IntOf(part1), IntOf(Slice(rest, 0, 2)), IntOf(Slice(rest, 2, 4)) * SecUnit)

\* DMS.from_str raises ValueError: no point to split at, or a bad part
DMS_from_str_ok(string) ==
    /\ Contains(string, ".")
    /\ DMS_parts_ok(Slice(string, 0, Find(string, ".")),
                    SliceFrom(string, Find(string, ".") + 1))

\* DMS.from_str
DMS_from_str(string) ==
    DMS_from_parts(Slice(string, 0, Find(string, ".")),
                   SliceFrom(string, Find(string, ".") + 1))

\* str(float(seconds)): the shortest decimal text of the float
FloatSecondsToStr(cs) ==
    LET a == IF cs < 0 THEN -cs ELSE cs
        sgn == IF cs < 0 THEN "-" ELSE ""
        frac == a % SecUnit
    IN  sgn \o NatToStr(a \div SecUnit) \o "."
            \o (IF frac % 10 = 0 THEN DigitChar(frac \div 10)
                ELSE DigitChar(frac \div 10) \o DigitChar(frac % 10))

\* DMS.__str__, fs being str(float(self.seconds))
DMS_format(dms, fs) ==
    IntToStr(dms.degrees) \o "-" \o ZFill(IntToStr(dms.minutes), 2) \o "-"
        \o ZFill(Slice(fs, 0, Find(fs, ".")), 2) \o "."
        \o LJustWith(SliceFrom(fs, Find(fs, ".") + 1), 2, "0")

\* DMS.__str__
DMS_str(dms) == DMS_format(dms, FloatSecondsToStr(dms.seconds))

\* float(self.seconds): the double nearest to the hundredths cs
SecondsFloat(cs) ==
    IF cs % SecUnit = 0 THEN FloatOfSigned(cs \div SecUnit)
    ELSE FloatDiv(FloatOfSigned(cs), SecUnit)

\* DMS.dd: self.degrees + self.minutes / 60 + self.seconds / 3600
DMS_dd(dms) ==
    FloatAdd(FloatAdd(FloatOfSigned(dms.degrees),
                      FloatDiv(FloatOfSigned(dms.minutes), 60)),
             FloatDiv(SecondsFloat(dms.seconds), 3600))

\* DMS.from_degrees, rest being decimal_degrees - d:
\* s = float(round((decimal_degrees - d - m / 60) * 3600))
DMS_from_minutes(d, rest, m) ==
    DMS(d, m,
        FloatRound(FloatMul(FloatSub(rest, FloatDiv(FloatOfSigned(m), 60)), 3600))
            * SecUnit)

\* DMS.from_degrees: m = int((decimal_degrees - d) * 60)
DMS_from_rest(d, rest) == DMS_from_minutes(d, rest, FloatInt(FloatMul(rest, 60)))

\* DMS.from_degrees: d = int(decimal_degrees)
DMS_from_whole(decimal_degrees, d) ==
    DMS_from_rest(d, FloatSub(decimal_degrees, FloatOfSigned(d)))

\* DMS.from_degrees
DMS_from_degrees(decimal_degrees) ==
    DMS_from_whole(decimal_degrees, FloatInt(decimal_degrees))

\* DMS.__sub__, diff being self.dd - other.dd
DMS_from_difference(diff) ==
    DMS_from_degrees(IF FloatNegative(diff) THEN FloatAdd(diff, FloatOfInt(360))
                     ELSE diff)

\* DMS.__sub__
DMS_sub(self, other) == DMS_from_difference(FloatSub(DMS_dd(self), DMS_dd(other)))

\* DMS.__eq__: seconds within 0.00001
DMS_eq(a, b) ==
    a.degrees = b.degrees /\ a.minutes = b.minutes /\ a.seconds = b.seconds

\* ------------------------------------------------------------------------
\* Rw5Record field extraction (record.py)
\* ------------------------------------------------------------------------
\* Rw5Record.get_param: the text before "--" of the stripped value
get_param_value(param) ==
    IF Contains(param, "--") THEN Slice(param, 0, Find(param, "--")) ELSE param

\* Rw5Record.get_param, found being line.find(prefix): the value runs from
\* the end of the prefix to the next comma, or to the end of the line
get_param_from(line, prefix, found) ==
    get_param_value(Strip(Slice(line, found + Len(prefix),
                                IF FindAt(line, ",", found) = -1 THEN Len(line)
                                ELSE FindAt(line, ",", found))))

\* Rw5Record.get_param
get_param(line, prefix) == get_param_from(line, prefix, Find(line, prefix))

\* Rw5Record.get_param_optional
get_param_optional(line, prefix) ==
    IF ~Contains(line, prefix) THEN None ELSE Some(get_param(line, prefix))

\* Rw5Record.get_comment: the text after the "--" found at comment_index
comment_at(_line, comment_index) ==
    IF comment_index = -1 THEN None
    ELSE Some(RemovePrefix(SliceFrom(_line, comment_index), "--"))

\* Rw5Record.get_comment: a leading "--" is removed before the search
get_comment(line) ==
    IF Find(line, "--") = 0
    THEN comment_at(RemovePrefix(line, "--"), Find(RemovePrefix(line, "--"), "--"))
    ELSE comment_at(line, Find(line, "--"))

\* ------------------------------------------------------------------------
\* MachineState (machine_state.py) and the record variants (record.py).
\* A from_string operator gets the machine state it may change as a value
\* and answers [exc, record, machine_state]: exc is "" or the exception the
\* code raises, record holds the fields of the new record and machine_state
\* is the state object the record and the parser share afterwards.
\* ------------------------------------------------------------------------
MachineState ==
    [instrument_height |-> None, rod_height |-> None,
     backsight_angle |-> None, backsight_coord |-> None]

Raise(e) == [exc |-> e]

NoFields == [f \in {} |-> f]

Made(cls, index, record_type, line, machine_state, comment, comment_lines, fields) ==
    [exc |-> "",
     record |-> [cls |-> cls, index |-> index, record_type |-> record_type,
                 content |-> line, comment |-> comment, notes |-> comment_lines]
                @@ fields,
     machine_state |-> machine_state]

\* Rw5Record.from_string, inherited by NoteRecord
Rw5Record_from_string(cls, index, record_type, line, machine_state, comment_lines) ==
    Made(cls, index, record_type, line, machine_state, get_comment(line),
         comment_lines, NoFields)

\* a variant of BacksightRecord that takes the backsight angle of the
\* machine state from the back circle BC
BacksightRecord_BC(index, record_type, line, machine_state, comment_lines, OP, BP, _BS, _BC) ==
    IF OP = "" \/ BP = "" \/ _BS = "" THEN Raise("AssertionError")
    ELSE IF ~DMS_from_str_ok(_BS) \/ ~DMS_from_str_ok(_BC) THEN Raise("ValueError")
    ELSE Made("BacksightRecord", index, record_type, line,
              [machine_state EXCEPT !.backsight_coord = Some(BP),
                                    !.backsight_angle = Some(DMS_from_str(_BC))],
              get_comment(line), comment_lines,
              [OP |-> OP, BP |-> BP, BS |-> DMS_from_str(_BS),
               BC |-> DMS_from_str(_BC)])

\* BacksightRecord.from_string, from the texts of the fields of the line
BacksightRecord(index, record_type, line, machine_state, comment_lines, OP, BP, _BS, _BC) ==
    IF OP = "" \/ BP = "" \/ _BS = "" THEN Raise("AssertionError")
    ELSE IF ~DMS_from_str_ok(_BS) \/ ~DMS_from_str_ok(_BC) THEN Raise("ValueError")
    ELSE Made("BacksightRecord", index, record_type, line,
              [machine_state EXCEPT !.backsight_coord = Some(BP),
                                    !.backsight_angle = Some(DMS_from_str(_BS))],
              get_comment(line), comment_lines,
              [OP |-> OP, BP |-> BP, BS |-> DMS_from_str(_BS),
               BC |-> DMS_from_str(_BC)])

\* BacksightRecord.from_string
BacksightRecord_from_string(index, record_type, line, machine_state, comment_lines) ==
    BacksightRecord(index, record_type, line, machine_state, comment_lines,
                    get_param(line, "OP"), get_param(line, "BP"),
                    get_param(line, "BS"), get_param(line, "BC"))

\* a variant of JobRecord.from_string that starts the job from an empty
\* machine state
JobRecord_from_string_reset(index, record_type, line, machine_state, comment_lines) ==
    Made("JobRecord", index, record_type, line, MachineState,
         get_comment(line), comment_lines,
         [NM |-> get_param(line, "NM"), DT |-> get_param(line, "DT"),
          TM |-> get_param(line, "TM")])

\* JobRecord.from_string
JobRecord_from_string(index, record_type, line, machine_state, comment_lines) ==
    Made("JobRecord", index, record_type, line, machine_state,
         get_comment(line), comment_lines,
         [NM |-> get_param(line, "NM"), DT |-> get_param(line, "DT"),
          TM |-> get_param(line, "TM")])

\* "if _HI:" is true of a present, non-empty text
Truthy(opt) == opt # None /\ Val(opt) # ""

\* Decimal(_HI) if _HI else None
OptionalDecimal(opt) == IF Truthy(opt) THEN Some(DecimalOf(Val(opt))) ELSE None

\* a variant of LineOfSightRecord that stores both heights, absent or not
LineOfSightRecord_both(index, record_type, line, machine_state, comment_lines, _HI, _HR) ==
    IF (Truthy(_HI) /\ ~DecimalOk(Val(_HI))) \/ (Truthy(_HR) /\ ~DecimalOk(Val(_HR)))
    THEN Raise("InvalidOperation")
    ELSE Made("LineOfSightRecord", index, record_type, line,
              [machine_state EXCEPT !.instrument_height = OptionalDecimal(_HI),
                                    !.rod_height = OptionalDecimal(_HR)],
              get_comment(line), comment_lines,
              [HI |-> OptionalDecimal(_HI), HR |-> OptionalDecimal(_HR)])

\* LineOfSightRecord.from_string, from the optional texts of HI and HR
LineOfSightRecord(index, record_type, line, machine_state, comment_lines, _HI, _HR) ==
    IF (Truthy(_HI) /\ ~DecimalOk(Val(_HI))) \/ (Truthy(_HR) /\ ~DecimalOk(Val(_HR)))
    THEN Raise("InvalidOperation")
    ELSE Made("LineOfSightRecord", index, record_type, line,
              [machine_state EXCEPT
                  !.instrument_height = IF Truthy(_HI) THEN OptionalDecimal(_HI) ELSE @,
                  !.rod_height = IF Truthy(_HR) THEN OptionalDecimal(_HR) ELSE @],
              get_comment(line), comment_lines,
              [HI |-> OptionalDecimal(_HI), HR |-> OptionalDecimal(_HR)])

\* LineOfSightRecord.from_string
LineOfSightRecord_from_string(index, record_type, line, machine_state, comment_lines) ==
    LineOfSightRecord(index, record_type, line, machine_state, comment_lines,
                      get_param_optional(line, "HI"), get_param_optional(line, "HR"))

\* ModeSetupRecord.from_string, from the texts of the fields of the line
ModeSetupRecord(index, record_type, line, machine_state, comment_lines, AD, UN, SF, EC, AU, EO) ==
    IF ~IntOk(AD) \/ ~IntOk(UN) THEN Raise("ValueError")
    ELSE IF ~DecimalOk(SF) THEN Raise("InvalidOperation")
    ELSE IF ~IntOk(EC) \/ ~IntOk(AU) THEN Raise("ValueError")
    ELSE IF Truthy(EO) /\ ~DecimalOk(Val(EO)) THEN Raise("InvalidOperation")
    ELSE Made("ModeSetupRecord", index, record_type, line, machine_state,
              get_comment(line), comment_lines,
              [AD |-> IntOf(AD), UN |-> IntOf(UN), SF |-> DecimalOf(SF),
               EC |-> IntOf(EC), AU |-> IntOf(AU), EO |-> OptionalDecimal(EO)])

\* ModeSetupRecord.from_string
ModeSetupRecord_from_string(index, record_type, line, machine_state, comment_lines) ==
    ModeSetupRecord(index, record_type, line, machine_state, comment_lines,
                    get_param(line, "AD"), get_param(line, "UN"),
                    get_param(line, "SF"), get_param(line, "EC"),
                    get_param(line, "AU"), get_param_optional(line, "EO"))

\* OccupyRecord.from_string, from the texts of the fields of the line
OccupyRecord(index, record_type, line, machine_state, comment_lines, OP, N, E, EL) ==
    IF ~DecimalOk(N) \/ ~DecimalOk(E) \/ ~DecimalOk(EL) THEN Raise("InvalidOperation")
    ELSE Made("OccupyRecord", index, record_type, line, machine_state,
              get_comment(line), comment_lines,
              [OP |-> OP, N |-> DecimalOf(N), E |-> DecimalOf(E),
               EL |-> DecimalOf(EL)])

\* OccupyRecord.from_string
OccupyRecord_from_string(index, record_type, line, machine_state, comment_lines) ==
    OccupyRecord(index, record_type, line, machine_state, comment_lines,
                 get_param(line, "OP"), get_param(line, "N "),
                 get_param(line, "E "), get_param(line, "EL"))

\* OffCenterShotRecord.from_string, from the texts of the fields of the line
OffCenterShotRecord(index, record_type, line, machine_state, comment_lines, _AR, _ZE, SD) ==
    IF ~DMS_from_str_ok(_AR) \/ ~DMS_from_str_ok(_ZE) THEN Raise("ValueError")
    ELSE IF ~DecimalOk(SD) THEN Raise("InvalidOperation")
    ELSE Made("OffCenterShotRecord", index, record_type, line, machine_state,
              get_comment(line), comment_lines,
              [AR |-> DMS_from_str(_AR), ZE |-> DMS_from_str(_ZE),
               SD |-> DecimalOf(SD)])

\* OffCenterShotRecord.from_string
OffCenterShotRecord_from_string(index, record_type, line, machine_state, comment_lines) ==
    OffCenterShotRecord(index, record_type, line, machine_state, comment_lines,
                        get_param(line, "AR"), get_param(line, "ZE"),
                        get_param(line, "SD"))

\* SideshotRecord.from_string, from the texts of the fields of the line
SideshotRecord(index, record_type, line, machine_state, comment_lines, OP, FP, AR, ZE, SD) ==
    IF ~DMS_from_str_ok(AR) \/ ~DMS_from_str_ok(ZE) THEN Raise("ValueError")
    ELSE IF ~DecimalOk(SD) THEN Raise("InvalidOperation")
    ELSE Made("SideshotRecord", index, record_type, line, machine_state,
              get_comment(line), comment_lines,
              [OP |-> OP, FP |-> FP, AR |-> DMS_from_str(AR),
               ZE |-> DMS_from_str(ZE), SD |-> DecimalOf(SD)])

\* SideshotRecord.from_string
SideshotRecord_from_string(index, record_type, line, machine_state, comment_lines) ==
    SideshotRecord(index, record_type, line, machine_state, comment_lines,
                   get_param(line, "OP"), get_param(line, "FP"),
                   get_param(line, "AR"), get_param(line, "ZE"),
                   get_param(line, "SD"))

\* One "--Reading" note of a resection (StorePointRecord.from_string, loop
\* body), from its name and the texts of its fields: [exc, reading]
StorePointResectionReadingCommentRecord(name, FP, _AR, _ZE, _SD, comment) ==
    IF ~DMS_from_str_ok(_AR) \/ ~DMS_from_str_ok(_ZE) THEN Raise("ValueError")
    ELSE IF ~DecimalOk(_SD) THEN Raise("InvalidOperation")
    ELSE [exc |-> "",
          reading |-> [name |-> name, FP |-> FP, AR |-> DMS_from_str(_AR),
                       ZE |-> DMS_from_str(_ZE), SD |-> DecimalOf(_SD),
                       comment |-> comment]]

\* name = line[name_start:name_end]; _l = line[name_end + 1:]
resection_reading(line, name, _l) ==
    StorePointResectionReadingCommentRecord(name, get_param(_l, "FP"),
        get_param(_l, "AR"), get_param(_l, "ZE"), get_param(_l, "SD"),
        get_comment(_l))

\* the loop variables after a note that is a reading: "line" and "comment"
\* are the ones of from_string itself
after_reading(acc, line, made) ==
    IF made.exc # "" THEN [acc EXCEPT !.exc = made.exc]
    ELSE [acc EXCEPT !.line = line, !.comment = made.reading.comment,
                     !.readings = Append(@, made.reading)]

\* The loop over comment_lines[3:]: acc is [exc, line, comment, readings]
RECURSIVE ResectionLoop(_, _)
ResectionLoop(rest, acc) ==
    IF acc.exc # "" \/ Len(rest) = 0 THEN acc
    ELSE IF ~StartsWith(Head(rest), "--Reading")
    THEN ResectionLoop(Tail(rest), [acc EXCEPT !.line = Head(rest)])
    ELSE ResectionLoop(Tail(rest),
             after_reading(acc, Head(rest),
                 resection_reading(Head(rest),
                     Slice(Head(rest),
                           Find(Head(rest), "--Reading ") + Len("--Reading "),
                           Find(Head(rest), ":")),
                     SliceFrom(Head(rest), Find(Head(rest), ":") + 1))))

\* StorePointRecord.from_string, from the texts of the fields of the line
\* and what the loop over the notes left
StorePointRecord(index, record_type, machine_state, comment_lines, PN, N, E, EL, resection, loop) ==
    IF loop.exc # "" THEN Raise(loop.exc)
    ELSE IF ~DecimalOk(N) \/ ~DecimalOk(E) \/ ~DecimalOk(EL)
    THEN Raise("InvalidOperation")
    ELSE Made("StorePointRecord", index, record_type, loop.line, machine_state,
              loop.comment, comment_lines,
              [PN |-> PN, N |-> DecimalOf(N), E |-> DecimalOf(E),
               EL |-> DecimalOf(EL), resection |-> resection,
               resection_readings |-> loop.readings])

\* a variant of is_resection that looks for the resection note one place
\* early, at the second note
is_resection_second(comment_lines) ==
    Len(comment_lines) >= 2 /\ StartsWith(comment_lines[2], "--Resection:")

\* the notes make a resection of the store point
is_resection(comment_lines) ==
    Len(comment_lines) >= 3 /\ StartsWith(comment_lines[3], "--Resection:")

\* the loop over the notes of a store point, when they make a resection
resection_notes(line, comment_lines, start) ==
    IF is_resection(comment_lines)
    THEN ResectionLoop(SubSeq(comment_lines, 4, Len(comment_lines)), start)
    ELSE start

\* StorePointRecord.from_string
StorePointRecord_from_string(index, record_type, line, machine_state, comment_lines) ==
    StorePointRecord(index, record_type, machine_state, comment_lines,
        get_param(line, "PN"), get_param(line, "N "), get_param(line, "E "),
        get_param(line, "EL"), is_resection(comment_lines),
        resection_notes(line, comment_lines,
            [exc |-> "", line |-> line, comment |-> get_comment(line),
             readings |-> <<>>]))

\* text.removeprefix(prefix).strip().split(" ")[0]
first_word_after(text, prefix) == SplitFirst(Strip(RemovePrefix(text, prefix)), " ")

\* GPSRecord.from_string, the multi-epoch block, from the texts of its values
GPS_average_of(comment_lines, count, HRMS, VRMS, AGE) ==
    IF ~IntOk(count) THEN Raise("ValueError")
    ELSE IF Len(comment_lines) < 11 THEN Raise("IndexError")
    ELSE IF ~DecimalOk(HRMS) THEN Raise("InvalidOperation")
    ELSE IF Len(comment_lines) < 12 THEN Raise("IndexError")
    ELSE IF ~DecimalOk(VRMS) THEN Raise("InvalidOperation")
    ELSE IF Len(comment_lines) < 16 THEN Raise("IndexError")
    ELSE IF ~DecimalOk(AGE) THEN Raise("InvalidOperation")
    ELSE [exc |-> "", FIXED |-> TRUE, num_readings |-> IntOf(count),
          HRMS |-> DecimalOf(HRMS), VRMS |-> DecimalOf(VRMS),
          AGE |-> DecimalOf(AGE)]

\* GPSRecord.from_string, the multi-epoch block ("--Valid Readings:")
GPS_average(comment_lines) ==
    GPS_average_of(comment_lines,
        first_word_after(comment_lines[3], "--Valid Readings:"),
        first_word_after(comment_lines[11], "--HRMS Avg:"),
        first_word_after(comment_lines[12], "--VRMS Avg:"),
        first_word_after(comment_lines[16], "--AGE Avg:"))

\* a variant of the single-epoch line that takes every solution as fixed
GPS_single_always_fixed(HRMS, VRMS, AGE, STATUS) ==
    IF ~DecimalOk(HRMS) \/ ~DecimalOk(VRMS) \/ ~DecimalOk(AGE)
    THEN Raise("InvalidOperation")
    ELSE [exc |-> "", FIXED |-> TRUE, num_readings |-> 1,
          HRMS |-> DecimalOf(HRMS), VRMS |-> DecimalOf(VRMS),
          AGE |-> DecimalOf(AGE)]

\* GPSRecord.from_string, the single-epoch line, from the texts of its values
GPS_single_of(HRMS, VRMS, AGE, STATUS) ==
    IF ~DecimalOk(HRMS) \/ ~DecimalOk(VRMS) \/ ~DecimalOk(AGE)
    THEN Raise("InvalidOperation")
    ELSE [exc |-> "", FIXED |-> STATUS = "FIXED", num_readings |-> 1,
          HRMS |-> DecimalOf(HRMS), VRMS |-> DecimalOf(VRMS),
          AGE |-> DecimalOf(AGE)]

\* GPSRecord.from_string, the single-epoch line ("--HRMS")
GPS_single(HRMS_line) ==
    GPS_single_of(get_param(HRMS_line, "HRMS:"), get_param(HRMS_line, "VRMS:"),
                  get_param(HRMS_line, "AGE:"), get_param(HRMS_line, "STATUS:"))

\* which of the two shapes the notes of a GPS record have
GPS_shape(comment_lines) ==
    IF StartsWith(comment_lines[3], "--Valid Readings:") THEN "average"
    ELSE IF StartsWith(comment_lines[3], "--HRMS") THEN "single"
    ELSE "neither"

\* FIXED, num_readings, HRMS, VRMS and AGE of a GPS record
GPS_quality(comment_lines) ==
    IF GPS_shape(comment_lines) = "average" THEN GPS_average(comment_lines)
    ELSE GPS_single(comment_lines[3])

\* GPSRecord.from_string, from the texts of the fields of the line and of
\* its first note; EL is by then the elevation of the note
GPSRecord(index, record_type, line, machine_state, comment_lines, PN, LA, LN, N, E, EL, shape, quality) ==
    IF Len(comment_lines) < 1 THEN Raise("IndexError")
    ELSE IF ~DecimalOk(N) \/ ~DecimalOk(E) \/ ~DecimalOk(EL)
    THEN Raise("InvalidOperation")
    ELSE IF Len(comment_lines) < 3 THEN Raise("IndexError")
    ELSE IF shape # "neither" /\ quality.exc # "" THEN Raise(quality.exc)
    ELSE IF ~DecimalOk(LA) \/ ~DecimalOk(LN) THEN Raise("InvalidOperation")
    ELSE IF shape = "neither" THEN Raise("UnboundLocalError")
    ELSE Made("GPSRecord", index, record_type, line, machine_state,
              get_comment(line), comment_lines,
              [PN |-> PN, _LA |-> DecimalOf(LA), _LN |-> DecimalOf(LN),
               _EL |-> DecimalOf(EL),
               N |-> DecimalOf(N), E |-> DecimalOf(E), EL |-> DecimalOf(EL),
               FIXED |-> quality.FIXED, num_epochs |-> quality.num_readings,
               HRMS |-> quality.HRMS, VRMS |-> quality.VRMS,
               AGE |-> quality.AGE])

\* GPSRecord.from_string
GPSRecord_from_string(index, record_type, line, machine_state, comment_lines) ==
    GPSRecord(index, record_type, line, machine_state, comment_lines,
              get_param(line, "PN"), get_param(line, "LA"), get_param(line, "LN"),
              get_param(comment_lines[1], "N "), get_param(comment_lines[1], "E "),
              get_param(comment_lines[1], "EL"),
              GPS_shape(comment_lines), GPS_quality(comment_lines))

\* ------------------------------------------------------------------------
\* State
\* ------------------------------------------------------------------------
VARIABLES
    file,                   \* the lines of the input file read so far
    pc,                     \* "parse", then the converter's position
    error,                  \* "" or the exception that ended the run
    record_line,            \* parse(): the pending record line, or None
    record_line_index,      \* parse(): its index, or None
    comment_lines,          \* parse(): the notes gathered for it
    records,                \* Rw5Parser.records / Rw5Data.records
    heap,                   \* the MachineState objects, by reference
    current_machine_state,  \* Rw5Parser.current_machine_state, a reference
    coordinates,            \* Rw5Data.coordinates, in insertion order
    point_occurrence_count, \* Rw5Data.point_occurrence_count
    dat_file_lines,         \* Rw5ToDatConverter.dat_file_lines
    dms                     \* the DMS objects of an operation of dms.py

vars == <<file, pc, error, record_line, record_line_index, comment_lines,
          records, heap, current_machine_state, coordinates,
          point_occurrence_count, dat_file_lines, dms>>

parser_vars == <<record_line, record_line_index, comment_lines, records,
                 heap, current_machine_state>>
data_vars == <<coordinates, point_occurrence_count>>

\* no DMS object is taken by itself: the angles are those of the records
NoDMS == [op |-> "none"]

\* Rw5Parser.__init__ and the locals of parse() before its loop
Init ==
    /\ dms = NoDMS
    /\ file = <<>>
    /\ pc = "parse"
    /\ error = ""
    /\ record_line = None
    /\ record_line_index = None
    /\ comment_lines = <<>>
    /\ records = <<>>
    /\ heap = <<MachineState>>
    /\ current_machine_state = 1
    /\ coordinates = <<>>
    /\ point_occurrence_count = <<>>
    /\ dat_file_lines = <<>>

\* ------------------------------------------------------------------------
\* Rw5Parser (parser.py)
\* ------------------------------------------------------------------------
substitute_point_comment_prefix == "CP/"

\* Rw5Parser.substitute_point_name
substitute_point_name(record_type, line) ==
    IF ~Contains(line, "--" \o substitute_point_comment_prefix) THEN line
    ELSE LET key == IF record_type = "GPS" THEN "PN" ELSE "FP"
             point_name_start == Find(line, key) + 2
             point_name_end_exclusive == FindAt(line, ",", point_name_start)
             point_name == Slice(line, point_name_start, point_name_end_exclusive)
             new_point_name_start ==
                 Find(line, substitute_point_comment_prefix)
                 + Len(substitute_point_comment_prefix)
             new_point_name ==
                 Strip(SplitFirst(SliceFrom(line, new_point_name_start), " "))
         IN  Replace(line, point_name, new_point_name)

\* the record code of a line: line.split(",")[0], "--" for a note
record_code(line) ==
    LET code == SplitFirst(line, ",")
    IN  IF Slice(code, 0, 2) = "--" THEN "--" ELSE code

\* a variant of deepcopy that hands out the current object itself
deepcopy_shared(h, ref) == [heap |-> h, ref |-> ref]

\* copy.deepcopy(self.current_machine_state): a new object with equal fields
deepcopy(h, ref) == [heap |-> Append(h, h[ref]), ref |-> Len(h) + 1]

\* the match statement of parse_instruction and the from_string call
dispatch(code, index, line, machine_state, notes) ==
    CASE code = "--" ->
            Rw5Record_from_string("NoteRecord", index, code, Strip(line),
                                  machine_state, notes)
      [] code = "BK" ->
            BacksightRecord_from_string(index, code, Strip(line), machine_state, notes)
      [] code = "JB" ->
            JobRecord_from_string(index, code, Strip(line), machine_state, notes)
      [] code = "LS" ->
            LineOfSightRecord_from_string(index, code, Strip(line), machine_state, notes)
      [] code = "MO" ->
            ModeSetupRecord_from_string(index, code, Strip(line), machine_state, notes)
      [] code = "OC" ->
            OccupyRecord_from_string(index, code, Strip(line), machine_state, notes)
      [] code = "OF" ->
            OffCenterShotRecord_from_string(index, code, Strip(line), machine_state, notes)
      [] code = "SP" ->
            StorePointRecord_from_string(index, code, Strip(line), machine_state, notes)
      [] code = "SS" ->
            SideshotRecord_from_string(index, code,
                Strip(substitute_point_name("SS", line)), machine_state, notes)
      [] code = "GPS" ->
            GPSRecord_from_string(index, code,
                Strip(substitute_point_name("GPS", line)), machine_state, notes)
      [] OTHER ->
            Rw5Record_from_string("Rw5Record", index, code, Strip(line),
                                  machine_state, notes)

\* Rw5Parser.parse_instruction, copy being the deep copy of the current
\* machine state and made what from_string answers: [exc, record, heap, ref],
\* the record holding a reference to the state object that becomes the
\* current one
parsed_record(copy, made) ==
    IF made.exc # "" THEN [exc |-> made.exc]
    ELSE [exc |-> "",
          record |-> made.record @@ [machine_state |-> copy.ref],
          heap |-> [copy.heap EXCEPT ![copy.ref] = made.machine_state],
          ref |-> copy.ref]

\* Rw5Parser.parse_instruction, copy being the deep copy
parse_with_copy(copy, index, line, notes) ==
    parsed_record(copy,
        dispatch(record_code(line), index, line, copy.heap[copy.ref], notes))

\* Rw5Parser.parse_instruction
parse_instruction(h, current, index, line, notes) ==
    parse_with_copy(deepcopy(h, current), index, line, notes)

\* a variant of start_record that keeps the notes gathered so far
start_record_keeping_notes(line, index) ==
    [record_line |-> Some(line), record_line_index |-> Some(index),
     comment_lines |-> comment_lines]

\* a variant of start_record that gives every pending record the index of
\* the first line
start_record_at_first_line(line, index) ==
    [record_line |-> Some(line), record_line_index |-> Some(0),
     comment_lines |-> <<>>]

\* the pending record after a line that starts one:
\* record_line = line; record_line_index = index; comment_lines = []
start_record(line, index) ==
    [record_line |-> Some(line), record_line_index |-> Some(index),
     comment_lines |-> <<>>]

\* One iteration of the loop of Rw5Parser.parse, for the next line of the
\* file, which is any line of the set lines.  parsed is what
\* parse_instruction answers for the pending line; it is used when the line
\* read is not one of the pending line's notes.
ReadLine(lines) ==
    /\ pc = "parse"
    /\ error = ""
    /\ \E parsed \in {IF record_line # None /\ record_line_index # None
                       THEN parse_instruction(heap, current_machine_state,
                                Val(record_line_index), Val(record_line),
                                comment_lines)
                       ELSE [exc |-> ""]} :
         \E line \in lines :
            /\ file' = Append(file, line)
            /\ IF StartsWith(line, "--") /\ record_line # None
               THEN /\ comment_lines' = Append(comment_lines, line)
                    /\ UNCHANGED <<pc, error, record_line, record_line_index,
                                   records, heap, current_machine_state>>
               ELSE IF record_line # None /\ record_line_index # None
               THEN IF parsed.exc # ""
                    THEN /\ error' = parsed.exc
                         /\ UNCHANGED <<pc, record_line, record_line_index,
                                        comment_lines, records, heap,
                                        current_machine_state>>
                    ELSE /\ records' = Append(records, parsed.record)
                         /\ heap' = parsed.heap
                         /\ current_machine_state' = parsed.ref
                         /\ record_line' = start_record(line, Len(file)).record_line
                         /\ record_line_index' =
                                start_record(line, Len(file)).record_line_index
                         /\ comment_lines' = start_record(line, Len(file)).comment_lines
                         /\ UNCHANGED <<pc, error>>
               ELSE /\ record_line' = start_record(line, Len(file)).record_line
                    /\ record_line_index' =
                           start_record(line, Len(file)).record_line_index
                    /\ comment_lines' = start_record(line, Len(file)).comment_lines
                    /\ UNCHANGED <<pc, error, records, heap, current_machine_state>>
    /\ UNCHANGED <<data_vars, dat_file_lines, dms>>

\* ------------------------------------------------------------------------
\* Rw5Data (rw5_data.py) and AvgCoordinate (coordinate.py).  A dict is the
\* sequence of its [key, value] entries in insertion order.
\* ------------------------------------------------------------------------
DictHas(d, k) == \E i \in 1..Len(d) : d[i].key = k
DictIndex(d, k) == CHOOSE i \in 1..Len(d) : d[i].key = k
DictGet(d, k) == d[DictIndex(d, k)].value
DictPut(d, k, v) ==
    IF DictHas(d, k) THEN [d EXCEPT ![DictIndex(d, k)].value = v]
    ELSE Append(d, [key |-> k, value |-> v])

Coordinate(northing, easting, elevation) ==
    [northing |-> northing, easting |-> easting, elevation |-> elevation]

\* a variant of process_record that takes the coordinate of every store
\* point, a resection or not
process_record_every_store_point(acc, record) ==
    LET aggregated == record.cls = "GPSRecord"
                      \/ record.cls = "StorePointRecord"
        point_name == IF aggregated THEN Some(record.PN)
                      ELSE IF record.cls = "SideshotRecord" THEN Some(record.FP)
                      ELSE None
        before == IF DictHas(acc.coordinates, record.PN)
                  THEN DictGet(acc.coordinates, record.PN) ELSE <<>>
        coords == IF aggregated
                  THEN DictPut(acc.coordinates, record.PN,
                               Append(before, Coordinate(record.N, record.E, record.EL)))
                  ELSE acc.coordinates
        seen == IF DictHas(acc.point_occurrence_count, Val(point_name))
                THEN DictGet(acc.point_occurrence_count, Val(point_name)) ELSE 0
        counts == IF point_name # None
                  THEN DictPut(acc.point_occurrence_count, Val(point_name), seen + 1)
                  ELSE acc.point_occurrence_count
    IN  [coordinates |-> coords, point_occurrence_count |-> counts]

\* a variant of process_record that counts the occurrences of the
\* aggregated records only, not those of a sideshot's foresight point
process_record_not_counting_sideshots(acc, record) ==
    LET aggregated == record.cls = "GPSRecord"
                      \/ (record.cls = "StorePointRecord" /\ ~record.resection)
        point_name == IF aggregated THEN Some(record.PN) ELSE None
        before == IF DictHas(acc.coordinates, record.PN)
                  THEN DictGet(acc.coordinates, record.PN) ELSE <<>>
        coords == IF aggregated
                  THEN DictPut(acc.coordinates, record.PN,
                               Append(before, Coordinate(record.N, record.E, record.EL)))
                  ELSE acc.coordinates
        seen == IF DictHas(acc.point_occurrence_count, Val(point_name))
                THEN DictGet(acc.point_occurrence_count, Val(point_name)) ELSE 0
        counts == IF point_name # None
                  THEN DictPut(acc.point_occurrence_count, Val(point_name), seen + 1)
                  ELSE acc.point_occurrence_count
    IN  [coordinates |-> coords, point_occurrence_count |-> counts]

\* the body of the loop of Rw5Data.process_coordinates for one record
process_record(acc, record) ==
    LET aggregated == record.cls = "GPSRecord"
                      \/ (record.cls = "StorePointRecord" /\ ~record.resection)
        point_name == IF aggregated THEN Some(record.PN)
                      ELSE IF record.cls = "SideshotRecord" THEN Some(record.FP)
                      ELSE None
        before == IF DictHas(acc.coordinates, record.PN)
                  THEN DictGet(acc.coordinates, record.PN) ELSE <<>>
        coords == IF aggregated
                  THEN DictPut(acc.coordinates, record.PN,
                               Append(before, Coordinate(record.N, record.E, record.EL)))
                  ELSE acc.coordinates
        seen == IF DictHas(acc.point_occurrence_count, Val(point_name))
                THEN DictGet(acc.point_occurrence_count, Val(point_name)) ELSE 0
        counts == IF point_name # None
                  THEN DictPut(acc.point_occurrence_count, Val(point_name), seen + 1)
                  ELSE acc.point_occurrence_count
    IN  [coordinates |-> coords, point_occurrence_count |-> counts]

\* Rw5Data.process_coordinates
RECURSIVE process_coordinates(_, _)
process_coordinates(recs, acc) ==
    IF Len(recs) = 0 THEN acc
    ELSE process_coordinates(Tail(recs), process_record(acc, Head(recs)))

\* a + b on Decimals
DecimalAdd(a, b) ==
    LET e == Max(a.exp, b.exp)
    IN  [coef |-> a.coef * Pow10(e - a.exp) + b.coef * Pow10(e - b.exp), exp |-> e]

RECURSIVE DecimalSum(_, _)
DecimalSum(coords, field) ==
    IF Len(coords) = 0 THEN [coef |-> 0, exp |-> 0]
    ELSE DecimalAdd(DecimalSum(SubSeq(coords, 1, Len(coords) - 1), field),
                    coords[Len(coords)][field])

\* a variant of AvgCoordinate.avg that answers the first coordinate
AvgCoordinate_first(coords) ==
    [northing |-> [num |-> coords[1].northing, den |-> 1],
     easting |-> [num |-> coords[1].easting, den |-> 1],
     elevation |-> [num |-> coords[1].elevation, den |-> 1]]

\* AvgCoordinate.avg: each mean is kept as the quotient sum / len
AvgCoordinate_avg(coords) ==
    [northing |-> [num |-> DecimalSum(coords, "northing"), den |-> Len(coords)],
     easting |-> [num |-> DecimalSum(coords, "easting"), den |-> Len(coords)],
     elevation |-> [num |-> DecimalSum(coords, "elevation"), den |-> Len(coords)]]

\* round(sum / len, places)
QuotientRound(q, places) ==
    IF q.num.exp <= places
    THEN [coef |-> RoundHalfEven(q.num.coef * Pow10(places - q.num.exp), q.den),
          exp |-> places]
    ELSE [coef |-> RoundHalfEven(q.num.coef, q.den * Pow10(q.num.exp - places)),
          exp |-> places]

\* The end of the file: parse() leaves its loop and returns
\* Rw5Data(self.rw5_path, self.rw5_encoding, self.records)
EndOfFile ==
    /\ pc = "parse"
    /\ error = ""
    /\ \E data \in {process_coordinates(records,
                         [coordinates |-> <<>>, point_occurrence_count |-> <<>>])} :
         /\ coordinates' = data.coordinates
         /\ point_occurrence_count' = data.point_occurrence_count
    /\ pc' = "convert"
    /\ UNCHANGED <<file, error, parser_vars, dat_file_lines, dms>>

\* ------------------------------------------------------------------------
\* Rw5ToDatConverter (dat_file.py)
\* ------------------------------------------------------------------------
\* the collaborators' values: the path given to the parser and
\* datetime.datetime.now().isoformat()
rw5_path == "survey.rw5"
now_isoformat == "2023-08-31T07:54:46"

\* "if comment" on an Optional[str]
HasComment(comment) == comment # None /\ Val(comment) # ""

\* Rw5ToDatConverter._comment
_comment(comment) == "# " \o comment

\* Rw5ToDatConverter._c
_c(station, northing, easting, elevation) ==
    LJust("C  " \o station, 8)
    \o RJust(DecimalToStr(QuotientRound(easting, 3)), 15)
    \o RJust(DecimalToStr(QuotientRound(northing, 3)), 15)
    \o RJust(DecimalToStr(QuotientRound(elevation, 3)), 10)

\* f"{round(instrument_height, 3)}/{round(rod_height, 3)}"
Heights(instrument_height, rod_height) ==
    DecimalToStr(DecimalRound(instrument_height, 3)) \o "/"
    \o DecimalToStr(DecimalRound(rod_height, 3))

\* Rw5ToDatConverter._ss: the conditional expression spans the whole sum
_ss(at, _from, to, angle, slope_distance, zenith, instrument_height, rod_height, comment) ==
    IF HasComment(comment)
    THEN LJust("SS " \o at \o "-" \o _from \o "-" \o to, 18)
         \o RJust(DMS_str(angle), 15)
         \o RJust(DecimalToStr(DecimalRound(slope_distance, 4)), 12)
         \o RJust(DMS_str(zenith), 15)
         \o RJust(Heights(instrument_height, rod_height), 15)
         \o " '" \o Val(comment)
    ELSE ""

\* Rw5ToDatConverter._m
_m(at, _from, to, angle, slope_distance, zenith, instrument_height, rod_height, comment) ==
    IF HasComment(comment)
    THEN LJust("M  " \o at \o "-" \o _from \o "-" \o to, 18)
         \o RJust(DMS_str(angle), 15)
         \o RJust(DecimalToStr(DecimalRound(slope_distance, 4)), 12)
         \o RJust(DMS_str(zenith), 15)
         \o RJust(Heights(instrument_height, rod_height), 15)
         \o " '" \o Val(comment)
    ELSE ""

\* Rw5ToDatConverter._dv
_dv(at, _from, slope_distance, zenith, instrument_height, rod_height, comment) ==
    IF HasComment(comment)
    THEN LJust("DV " \o at \o "-" \o _from, 18)
         \o RJust("", 15)
         \o RJust(DecimalToStr(DecimalRound(slope_distance, 4)), 12)
         \o RJust(DMS_str(zenith), 15)
         \o RJust(Heights(instrument_height, rod_height), 15)
         \o " '" \o Val(comment)
    ELSE ""

\* Rw5ToDatConverter._db
_db(PN, comment) ==
    "DB " \o PN \o (IF HasComment(comment) THEN " '" \o Val(comment) ELSE "")

\* Rw5ToDatConverter._dm
_dm(to, direction, slope_distance, zenith, instrument_height, rod_height) ==
    "DM " \o LJust(to, 15)
    \o RJust(DMS_str(direction), 15)
    \o RJust(DecimalToStr(slope_distance), 12)
    \o RJust(DMS_str(zenith), 15)
    \o RJust(Heights(instrument_height, rod_height), 15)

\* Rw5ToDatConverter._de
_de == "DE"

\* Rw5Data.job_record: the first JobRecord, None where the code raises
job_record(recs) ==
    IF \E i \in 1..Len(recs) : recs[i].cls = "JobRecord"
    THEN Some(recs[CHOOSE i \in 1..Len(recs) :
                     /\ recs[i].cls = "JobRecord"
                     /\ \A j \in 1..(i - 1) : recs[j].cls # "JobRecord"])
    ELSE None

\* the lines of Rw5ToDatConverter.write_header
header(job) ==
    << _comment("PY RW5 Version 1.0"),
       "",
       _comment("Input File Path : " \o rw5_path),
       _comment("Date Processed  : " \o now_isoformat),
       "",
       _comment("Job             : " \o job.NM),
       _comment("Date            : " \o job.DT),
       _comment("Time            : " \o job.TM) >>

\* convert(): write_header() and the empty line after it
write_header ==
    /\ pc = "convert"
    /\ error = ""
    /\ IF job_record(records) = None
       THEN /\ error' = "ValueError"
            /\ UNCHANGED <<pc, dat_file_lines>>
       ELSE /\ dat_file_lines' =
                  Append(dat_file_lines \o header(Val(job_record(records))), "")
            /\ pc' = "prelude"
            /\ UNCHANGED error
    /\ UNCHANGED <<file, parser_vars, data_vars, dms>>

\* a variant of coordinate_prelude that writes the points last seen first
coordinate_prelude_reversed(coords) ==
    [i \in 1..Len(coords) |->
        LET avg == AvgCoordinate_avg(coords[Len(coords) + 1 - i].value)
        IN  _c(coords[Len(coords) + 1 - i].key, avg.northing, avg.easting,
               avg.elevation)]

\* the lines of Rw5ToDatConverter.write_coordinate_prelude
coordinate_prelude(coords) ==
    [i \in 1..Len(coords) |->
        LET avg == AvgCoordinate_avg(coords[i].value)
        IN  _c(coords[i].key, avg.northing, avg.easting, avg.elevation)]

\* convert(): write_coordinate_prelude() and the empty line after it
write_coordinate_prelude ==
    /\ pc = "prelude"
    /\ error = ""
    /\ dat_file_lines' = Append(dat_file_lines \o coordinate_prelude(coordinates), "")
    /\ pc' = "commands"
    /\ UNCHANGED <<file, error, parser_vars, data_vars, dms>>

\* a variant of write_side_shot that passes over a sideshot whose machine
\* state lacks a field
write_side_shot_skipping(side_shot, machine_state, counts) ==
    IF \/ machine_state.backsight_angle = None
       \/ machine_state.backsight_coord = None
       \/ machine_state.instrument_height = None
       \/ machine_state.rod_height = None
    THEN [exc |-> "", lines |-> <<>>]
    ELSE IF side_shot.FP = Val(machine_state.backsight_coord)
    THEN [exc |-> "",
          lines |-> << _dv(side_shot.OP, Val(machine_state.backsight_coord),
                           side_shot.SD, side_shot.ZE,
                           Val(machine_state.instrument_height),
                           Val(machine_state.rod_height), side_shot.comment) >>]
    ELSE LET angle == DMS_sub(side_shot.AR, Val(machine_state.backsight_angle))
         IN  [exc |-> "",
              lines |-> << IF DictGet(counts, side_shot.FP) > 1
                           THEN _m(side_shot.OP, Val(machine_state.backsight_coord),
                                   side_shot.FP, angle, side_shot.SD, side_shot.ZE,
                                   Val(machine_state.instrument_height),
                                   Val(machine_state.rod_height), side_shot.comment)
                           ELSE _ss(side_shot.OP, Val(machine_state.backsight_coord),
                                    side_shot.FP, angle, side_shot.SD, side_shot.ZE,
                                    Val(machine_state.instrument_height),
                                    Val(machine_state.rod_height), side_shot.comment) >>]

\* Rw5ToDatConverter.write_side_shot: the line it appends, or its exception
write_side_shot(side_shot, machine_state, counts) ==
    IF \/ machine_state.backsight_angle = None
       \/ machine_state.backsight_coord = None
       \/ machine_state.instrument_height = None
       \/ machine_state.rod_height = None
    THEN [exc |-> "AssertionError", lines |-> <<>>]
    ELSE IF side_shot.FP = Val(machine_state.backsight_coord)
    THEN [exc |-> "",
          lines |-> << _dv(side_shot.OP, Val(machine_state.backsight_coord),
                           side_shot.SD, side_shot.ZE,
                           Val(machine_state.instrument_height),
                           Val(machine_state.rod_height), side_shot.comment) >>]
    ELSE LET angle == DMS_sub(side_shot.AR, Val(machine_state.backsight_angle))
         IN  [exc |-> "",
              lines |-> << IF DictGet(counts, side_shot.FP) > 1
                           THEN _m(side_shot.OP, Val(machine_state.backsight_coord),
                                   side_shot.FP, angle, side_shot.SD, side_shot.ZE,
                                   Val(machine_state.instrument_height),
                                   Val(machine_state.rod_height), side_shot.comment)
                           ELSE _ss(side_shot.OP, Val(machine_state.backsight_coord),
                                    side_shot.FP, angle, side_shot.SD, side_shot.ZE,
                                    Val(machine_state.instrument_height),
                                    Val(machine_state.rod_height), side_shot.comment) >>]

\* Rw5ToDatConverter.write_resection
write_resection(store_point, machine_state) ==
    IF machine_state.instrument_height = None \/ machine_state.rod_height = None
    THEN [exc |-> "AssertionError", lines |-> <<>>]
    ELSE [exc |-> "",
          lines |-> <<"", _db(store_point.PN, store_point.comment)>>
                    \o [i \in 1..Len(store_point.resection_readings) |->
                          LET reading == store_point.resection_readings[i]
                          IN  _dm(reading.FP, reading.AR, reading.SD, reading.ZE,
                                  Val(machine_state.instrument_height),
                                  Val(machine_state.rod_height))]
                    \o <<_de, "">>]

\* the body of the loop of Rw5ToDatConverter.write_commands for one record;
\* reading an attribute the record does not have raises AttributeError
write_command(record, h, counts) ==
    IF record.cls = "SideshotRecord"
    THEN write_side_shot(record, h[record.machine_state], counts)
    ELSE IF record.cls = "StorePointRecord"
    THEN IF "is_resection" \notin DOMAIN record
         THEN [exc |-> "AttributeError", lines |-> <<>>]
         ELSE IF record.is_resection
         THEN write_resection(record, h[record.machine_state])
         ELSE [exc |-> "", lines |-> <<>>]
    ELSE [exc |-> "", lines |-> <<>>]

\* the loop of write_commands: the lines appended until it ends or raises
RECURSIVE write_commands_loop(_, _, _, _)
write_commands_loop(recs, h, counts, acc) ==
    IF acc.exc # "" \/ Len(recs) = 0 THEN acc
    ELSE LET out == write_command(Head(recs), h, counts)
         IN  write_commands_loop(Tail(recs), h, counts,
                 [exc |-> out.exc, lines |-> acc.lines \o out.lines])

\* convert(): write_commands()
write_commands ==
    /\ pc = "commands"
    /\ error = ""
    /\ \E out \in {write_commands_loop(records, heap, point_occurrence_count,
                                       [exc |-> "", lines |-> <<>>])} :
         /\ dat_file_lines' = dat_file_lines \o out.lines
         /\ error' = out.exc
         /\ pc' = IF out.exc = "" THEN "done" ELSE pc
    /\ UNCHANGED <<file, parser_vars, data_vars, dms>>

\* ------------------------------------------------------------------------
\* Input files
\* ------------------------------------------------------------------------
JB == "JB,NMSAMPLE,DT06-27-2003,TM14:21:53\n"
MO == "MO,AD0,UN0,SF1.00000000,EC1,EO0.0,AU0\n"
BK == "BK,OP1,BP2,BS315.0000,BC0.0044\n"
BK3 == "BK,OP1,BP3,BS122.5230,BC122.5230\n"
LS == "LS,HI1.5,HR0.2\n"
LS_HI == "LS,HI1.6450\n"
LS_HR == "LS,HR2.1\n"
SS == "SS,OP1,FP3,AR10.0000,ZE90.0000,SD5.0000\n"
SS_tree == "SS,OP1,FP3,AR10.0000,ZE90.0000,SD5.0000,--tree\n"
SS_back == "SS,OP1,FP2,AR0.0044,ZE86.0133,SD10.313750,--CP\n"
SP == "SP,PN3,N 5002.0000,E 5000.0000,EL100.0000,--PP\n"
OC == "OC,OP1,N 5000.00000,E 5000.00000,EL100.000,--CP\n"
OF == "OF,AR90.3333,ZE90.0000,SD25.550000\n"
GPS == "GPS,PN3,LA45.573100,LN-66.384200,EL24.1500\n"
TR == "TR,OP1,FP4,AR90.3333,ZE90.3333,SD25.550000,--CP\n"
NOTE == "--DT08-31-2023\n"
NOTE_TM == "--TM08:28:36\n"
GS_NOTE == "--GS,PN3,N 5004.0000,E 5000.0000,EL100.0000\n"
GT_NOTE == "--GT,PN3,SW2277,ST405294000,EW2277,ET405295000\n"
HRMS_NOTE == "--HRMS:0.008, VRMS:0.012, STATUS:FIXED, SATS:15, AGE:1.0\n"

\* the notes of a store point that make a resection, and one that names a
\* resection without being the "--Resection:" note
RESECTION == "--Resection:HI1.545,PNI1,N 7366894.6628,E 2532861.1082,EL44.5363,--TEMP\n"
READING_A == "--Reading A:FP2, AR10.0000, ZE90.0000, SD5.0000\n"
READING_B == "--Reading B:FP4, AR120.3045, ZE88.1500, SD12.2500\n"
TOKEN_NOTE == "--End of Resection\n"

\* store points of one point name, for the mean of (1,1,1) and (3,3,3)
SP_1 == "SP,PN9,N 1,E 1,EL1\n"
SP_3 == "SP,PN9,N 3,E 3,EL3\n"

\* the notes of a GPS record averaged over 10 epochs, a single-epoch note
\* of a solution that is not fixed, and lines that lack a required field
VALID_NOTE == "--Valid Readings: 10 of 10\n"
FILL_NOTE == "--Fixed Readings: 10 of 10\n"
HRMS_AVG_NOTE == "--HRMS Avg: 0.0100 SD: 0.0005\n"
VRMS_AVG_NOTE == "--VRMS Avg: 0.0150 SD: 0.0007\n"
AGE_AVG_NOTE == "--AGE Avg: 1.0000 SD: 0.0000\n"
HRMS_FLOAT == "--HRMS:0.025, VRMS:0.040, STATUS:FLOAT, SATS:9, AGE:2.0\n"
JB_noTM == "JB,NMSAMPLE,DT06-27-2003\n"
BK_noBP == "BK,OP1,BS315.0000,BC0.0044\n"
SS_noOP == "SS,FP3,AR10.0000,ZE90.0000,SD5.0000,--tree\n"

\* sideshots and GPS records whose comment names the point after "CP/":
\* the old name occurs once in the line, or also in the occupied point, in
\* the angle, or in the latitude and longitude
SS_CP == "SS,OP1,FP3,AR10.0000,ZE90.0000,SD5.0000,--CP/CP8 tree\n"
SS_CP_OP == "SS,OP1,FP1,AR20.0000,ZE90.0000,SD5.0000,--CP/8\n"
SS_CP_AR == "SS,OP2,FP1,AR10.0000,ZE90.0000,SD5.0000,--CP/CP8\n"
GPS_CP == "GPS,PN6000,LA45.573100,LN-66.384200,EL24.1500,--CP/CP1\n"
GPS_CP_LA == "GPS,PN3,LA45.573100,LN-66.384200,EL24.1500,--CP/8\n"

\* the lines any of which may follow any other
LinePool == {JB, BK, LS, LS_HI, SS_tree, SP, GPS, TR, NOTE, NOTE_TM}

\* the files of Spec: up to MaxLines lines of LinePool in any order
FreeLines(f) == IF Len(f) < MaxLines THEN LinePool ELSE {}

\* the record lines that may follow the setup of a survey
SurveyPool ==
    {SS, SS_tree, SS_back, SP, GPS, BK3, LS, LS_HI, LS_HR, MO, OC, OF, TR, JB}

\* the lines of f that start a record, by their 1-based position: the first
\* line, and every later line that is not a note (parse, parser.py:85-96)
StartLines(f) == {i \in 1..Len(f) : i = 1 \/ ~StartsWith(f[i], "--")}

\* the number of lines of f that start a record
DataLines(f) == Cardinality(StartLines(f))

\* the files of SpecSurvey: job (or a leading note), mode setup, a backsight
\* and a line of sight, and then any lines of SurveyPool, a GPS line with its three notes,
\* up to MaxSurveyRecords record lines in all
SurveyLines(f) ==
    LET n == Len(f)
    IN  IF n = 0 THEN {JB, NOTE}
        ELSE IF n = 1 THEN {MO}
        ELSE IF n = 2 THEN {BK, BK3}
        ELSE IF n = 3 THEN {LS, LS_HI}
        ELSE IF f[n] = GPS THEN {GS_NOTE}
        ELSE IF f[n] = GS_NOTE THEN {GT_NOTE}
        ELSE IF f[n] = GT_NOTE THEN {HRMS_NOTE}
        ELSE IF DataLines(f) >= MaxSurveyRecords THEN {}
        ELSE SurveyPool

\* the last line of f that starts a record, and the lines from it on
LastStart(f) == CHOOSE i \in StartLines(f) : \A j \in StartLines(f) : j <= i
PendingBlock(f) == SubSeq(f, LastStart(f), Len(f))

\* A block is a record line with the notes that follow it.  The lines that
\* may follow the pending block tail: the next note of every block it
\* begins, and, when it is a whole block and more is true, the record line
\* of any block.
BlockNext(blocks, tail, whole, more) ==
    {b[Len(tail) + 1] :
        b \in {c \in blocks : Len(c) > Len(tail) /\ SubSeq(c, 1, Len(tail)) = tail}}
    \cup (IF whole /\ more THEN {b[1] : b \in blocks} ELSE {})

\* the blocks of SpecPoints: a sideshot, store points with and without the
\* notes of a resection, and a GPS record
PointBlocks ==
    { <<SS_tree>>, <<SP_1>>, <<SP_3>>,
      <<GPS, GS_NOTE, GT_NOTE, HRMS_NOTE>>,
      <<SP, NOTE, NOTE_TM, RESECTION, READING_A, NOTE, READING_B>>,
      <<SP, NOTE, NOTE_TM, RESECTION>>,
      <<SP, NOTE, NOTE_TM, TOKEN_NOTE, READING_A>> }

\* the files of SpecPoints: job, a backsight to point 2 or 3 or a mode
\* setup, a line of sight with both heights (or, after a backsight, with
\* one), and then up to MaxPointBlocks blocks
PointLines(f) ==
    IF Len(f) = 0 THEN {JB}
    ELSE IF Len(f) = 1 THEN {BK, BK3, MO}
    ELSE IF Len(f) = 2
    THEN (IF f[2] = BK THEN {LS, LS_HI} ELSE IF f[2] = BK3 THEN {LS_HR} ELSE {LS})
    ELSE BlockNext(PointBlocks, PendingBlock(f),
                   Len(f) = 3 \/ PendingBlock(f) \in PointBlocks,
                   DataLines(f) < 3 + MaxPointBlocks)

\* the blocks of SpecMalformed: GPS records with the notes of a single
\* epoch, of an average, of neither, and with too few notes, and record
\* lines that lack a required field
MalformedBlocks ==
    { <<GPS>>, <<GPS, GS_NOTE>>, <<GPS, GS_NOTE, GT_NOTE>>,
      <<GPS, GS_NOTE, GT_NOTE, HRMS_NOTE>>,
      <<GPS, GS_NOTE, GT_NOTE, HRMS_FLOAT>>,
      <<GPS, GS_NOTE, GT_NOTE, NOTE>>,
      <<GPS, GS_NOTE, GT_NOTE, VALID_NOTE, FILL_NOTE, FILL_NOTE, FILL_NOTE,
        FILL_NOTE, FILL_NOTE, FILL_NOTE, FILL_NOTE, HRMS_AVG_NOTE>>,
      <<GPS, GS_NOTE, GT_NOTE, VALID_NOTE, FILL_NOTE, FILL_NOTE, FILL_NOTE,
        FILL_NOTE, FILL_NOTE, FILL_NOTE, FILL_NOTE, HRMS_AVG_NOTE,
        VRMS_AVG_NOTE, FILL_NOTE, FILL_NOTE, FILL_NOTE, AGE_AVG_NOTE>>,
      <<JB_noTM>>, <<BK_noBP>>, <<SS_noOP>>, <<SS_tree>> }

\* the files of SpecMalformed: job and then up to MaxMalformedBlocks blocks
MalformedLines(f) ==
    IF Len(f) = 0 THEN {JB}
    ELSE BlockNext(MalformedBlocks, PendingBlock(f),
                   Len(f) = 1 \/ PendingBlock(f) \in MalformedBlocks,
                   DataLines(f) < 1 + MaxMalformedBlocks)

\* the blocks of SpecSubstitute: sideshots and GPS records with and without
\* a point name after "CP/"
SubstituteBlocks ==
    { <<SS_tree>>, <<SS_CP>>, <<SS_CP_OP>>, <<SS_CP_AR>>,
      <<GPS, GS_NOTE, GT_NOTE, HRMS_NOTE>>,
      <<GPS_CP, GS_NOTE, GT_NOTE, HRMS_NOTE>>,
      <<GPS_CP_LA, GS_NOTE, GT_NOTE, HRMS_NOTE>> }

\* the files of SpecSubstitute: job and then up to MaxSubstituteBlocks blocks
SubstituteLines(f) ==
    IF Len(f) = 0 THEN {JB}
    ELSE BlockNext(SubstituteBlocks, PendingBlock(f),
                   Len(f) = 1 \/ PendingBlock(f) \in SubstituteBlocks,
                   DataLines(f) < 1 + MaxSubstituteBlocks)

\* ------------------------------------------------------------------------
\* Specifications
\* ------------------------------------------------------------------------
Next ==
    \/ ReadLine(FreeLines(file))
    \/ EndOfFile
    \/ write_header
    \/ write_coordinate_prelude
    \/ write_commands

Spec == Init /\ [][Next]_vars

NextSurvey ==
    \/ ReadLine(SurveyLines(file))
    \/ EndOfFile
    \/ write_header
    \/ write_coordinate_prelude
    \/ write_commands

SpecSurvey == Init /\ [][NextSurvey]_vars

NextPoints ==
    \/ ReadLine(PointLines(file))
    \/ EndOfFile
    \/ write_header
    \/ write_coordinate_prelude
    \/ write_commands

SpecPoints == Init /\ [][NextPoints]_vars

NextMalformed ==
    \/ ReadLine(MalformedLines(file))
    \/ EndOfFile
    \/ write_header
    \/ write_coordinate_prelude
    \/ write_commands

SpecMalformed == Init /\ [][NextMalformed]_vars

NextSubstitute ==
    \/ ReadLine(SubstituteLines(file))
    \/ EndOfFile
    \/ write_header
    \/ write_coordinate_prelude
    \/ write_commands

SpecSubstitute == Init /\ [][NextSubstitute]_vars

\* ------------------------------------------------------------------------
\* The operations of DMS taken by themselves
\* ------------------------------------------------------------------------
\* the valid angles of the objects: the degrees, minutes and hundredths of
\* a second they are built of
AngleDegrees == {0, 25, 45, 359}
AngleMinutes == {0, 2, 34, 45, 59}
AngleSeconds == {0, 40, 3900, 5600, 5950, 5999}

ValidAngles ==
    {DMS(d, m, s) : d \in AngleDegrees, m \in AngleMinutes, s \in AngleSeconds}

\* the packed decimal strings given to DMS.from_str
PackedStrings ==
    {"0.0000", "30.1550", "315.0044", "122.5230", "45.3456", "10.9999", "10.6075"}

\* the objects an operation starts from: two angles, or a packed string
DMSInputs ==
    {[op |-> "new", self |-> a, other |-> b, string |-> "", result |-> None,
      exc |-> ""] : a \in ValidAngles, b \in ValidAngles}
    \cup {[op |-> "packed", self |-> DMS(0, 0, 0), other |-> DMS(0, 0, 0),
            string |-> s, result |-> None, exc |-> ""] : s \in PackedStrings}

InitDMS ==
    /\ dms \in DMSInputs
    /\ file = <<>>
    /\ pc = "parse"
    /\ error = ""
    /\ record_line = None
    /\ record_line_index = None
    /\ comment_lines = <<>>
    /\ records = <<>>
    /\ heap = <<MachineState>>
    /\ current_machine_state = 1
    /\ coordinates = <<>>
    /\ point_occurrence_count = <<>>
    /\ dat_file_lines = <<>>

\* the rest of the state, which the operations of DMS do not touch
program_vars == <<file, pc, error, parser_vars, data_vars, dat_file_lines>>

\* self - other
DMS__sub__ ==
    /\ dms.op = "new"
    /\ dms' = [dms EXCEPT !.op = "sub",
                          !.result = Some(DMS_sub(dms.self, dms.other))]
    /\ UNCHANGED program_vars

\* str(self)
DMS__str__ ==
    /\ dms.op = "new"
    /\ dms' = [dms EXCEPT !.op = "str", !.string = DMS_str(dms.self)]
    /\ UNCHANGED program_vars

\* DMS.from_str(string), of a packed string or of str(self)
DMS_from_str_call ==
    /\ dms.op \in {"packed", "str"}
    /\ dms' = IF DMS_from_str_ok(dms.string)
              THEN [dms EXCEPT !.op = "from_str",
                               !.result = Some(DMS_from_str(dms.string))]
              ELSE [dms EXCEPT !.op = "from_str", !.exc = "ValueError"]
    /\ UNCHANGED program_vars

NextDMS == DMS__sub__ \/ DMS__str__ \/ DMS_from_str_call

SpecDMS == InitDMS /\ [][NextDMS]_vars

\* ------------------------------------------------------------------------
\* Properties of the parser
\* ------------------------------------------------------------------------
\* the machine state a record holds, the one held by the record before it
\* (the state of a new parser before the first), and the live one
Snapshot(k) == heap[records[k].machine_state]
Before(k) == IF k = 1 THEN MachineState ELSE Snapshot(k - 1)
Live == heap[current_machine_state]

\* the notes of the line at position i of f: the longest run of lines
\* beginning with "--" that follows it
NotesAfter(f, i) ==
    LET last == CHOOSE j \in i..Len(f) :
                    /\ \A m \in (i + 1)..j : StartsWith(f[m], "--")
                    /\ j = Len(f) \/ ~StartsWith(f[j + 1], "--")
    IN  SubSeq(f, i + 1, last)

\* C1: when parse has returned, the records are, in order, one for every
\* line that starts a record (the first line and every later line that is
\* not a note), the last such line included.
C1_FinalRecordFlushed ==
    pc # "parse" =>
        /\ Len(records) = Cardinality(StartLines(file))
        /\ {records[k].index + 1 : k \in 1..Len(records)} = StartLines(file)

\* C2: the notes of every record are, in order, exactly the longest run of
\* lines beginning with "--" that follows the record's own line, and the
\* notes gathered for the pending line are the run that follows it so far.
C2_NotesAreFollowingRun ==
    /\ \A k \in 1..Len(records) :
          /\ records[k].index + 1 \in StartLines(file)
          /\ records[k].notes = NotesAfter(file, records[k].index + 1)
    /\ (pc = "parse" /\ error = "" /\ record_line_index # None) =>
          comment_lines = NotesAfter(file, Val(record_line_index) + 1)

C2_Witness ==
    \E k \in 1..Len(records) :
        /\ Len(records[k].notes) = 2
        /\ records[k].notes[1] # records[k].notes[2]

\* C3: no step changes a record already made or the machine state it
\* holds; a later backsight or line of sight changes the live state only.
C3_SnapshotsNeverChange ==
    [][\A k \in 1..Len(records) :
          /\ k <= Len(records')
          /\ records'[k] = records[k]
          /\ heap'[records[k].machine_state] = heap[records[k].machine_state]]_vars

C3_Witness ==
    \E k \in 1..Len(records) : \E j \in (k + 1)..Len(records) :
        /\ records[j].cls \in {"BacksightRecord", "LineOfSightRecord"}
        /\ Snapshot(j) = Live
        /\ Snapshot(k) # Live

\* C4: a backsight record with back point BP and backsight angle BS (the BS
\* field of its line, not BC) holds, and so does every record after it up
\* to the next backsight record, a machine state whose backsight point is
\* BP and whose backsight angle is BS; the backsight leaves both heights
\* as they were.
C4_BacksightSetsPointAndAngle ==
    \A k \in 1..Len(records) :
        records[k].cls = "BacksightRecord" =>
            /\ records[k].BP = get_param(records[k].content, "BP")
            /\ records[k].BS = DMS_from_str(get_param(records[k].content, "BS"))
            /\ \A j \in k..Len(records) :
                  (\A m \in (k + 1)..j : records[m].cls # "BacksightRecord") =>
                      /\ Snapshot(j).backsight_coord = Some(records[k].BP)
                      /\ Snapshot(j).backsight_angle = Some(records[k].BS)
            /\ Snapshot(k).instrument_height = Before(k).instrument_height
            /\ Snapshot(k).rod_height = Before(k).rod_height

C4_Witness ==
    \E k \in 1..Len(records) : \E j \in (k + 2)..Len(records) :
        /\ records[k].cls = "BacksightRecord"
        /\ records[k].BS # records[k].BC
        /\ records[k + 1].cls # "BacksightRecord"
        /\ records[j].cls = "BacksightRecord"
        /\ records[j].BP # records[k].BP
        /\ Before(j).instrument_height # None
        /\ Before(j).rod_height # None

\* C5: a line of sight record with HI alone sets the instrument height and
\* leaves the rod height, one with HR alone sets the rod height and leaves
\* the instrument height, one with both sets both; the backsight angle and
\* the backsight point stay as they were in every case.
C5_LineOfSightPartialUpdate ==
    \A k \in 1..Len(records) :
        records[k].cls = "LineOfSightRecord" =>
            /\ Snapshot(k).instrument_height =
                  IF get_param_optional(records[k].content, "HI") # None
                  THEN Some(DecimalOf(get_param(records[k].content, "HI")))
                  ELSE Before(k).instrument_height
            /\ Snapshot(k).rod_height =
                  IF get_param_optional(records[k].content, "HR") # None
                  THEN Some(DecimalOf(get_param(records[k].content, "HR")))
                  ELSE Before(k).rod_height
            /\ Snapshot(k).backsight_angle = Before(k).backsight_angle
            /\ Snapshot(k).backsight_coord = Before(k).backsight_coord

C5_Witness ==
    \E k \in 1..Len(records) :
        /\ records[k].cls = "LineOfSightRecord"
        /\ records[k].HI = None
        /\ records[k].HR # None
        /\ Before(k).instrument_height # None
        /\ Before(k).rod_height # None
        /\ Before(k).rod_height # records[k].HR
        /\ Before(k).backsight_coord # None

\* C6: a step that parses a record of any kind but backsight and line of
\* sight leaves the live machine state as it was, in all four fields.
C6_OnlyBacksightAndLineOfSightChangeState ==
    [][(/\ Len(records') = Len(records) + 1
        /\ records'[Len(records')].cls
              \notin {"BacksightRecord", "LineOfSightRecord"})
       => heap'[current_machine_state'] = heap[current_machine_state]]_vars

C6_Witness ==
    /\ Len(records) > 1
    /\ records[Len(records)].cls = "GPSRecord"
    /\ Snapshot(Len(records)) = Live
    /\ Live = Before(Len(records))
    /\ Live.instrument_height # None
    /\ Live.backsight_coord # None

\* ------------------------------------------------------------------------
\* Properties of the converter
\* ------------------------------------------------------------------------
\* the lines written by write_commands: those after the header, the
\* coordinate prelude and the empty line that follows each
Body ==
    SubSeq(dat_file_lines,
           Len(header(Val(job_record(records)))) + 1 + Len(coordinates) + 1 + 1,
           Len(dat_file_lines))

\* the lines the record at position k contributes, and where they begin
CommandLines(k) == write_command(records[k], heap, point_occurrence_count).lines

RECURSIVE BodyOffset(_)
BodyOffset(k) == IF k = 1 THEN 0 ELSE BodyOffset(k - 1) + Len(CommandLines(k - 1))

\* the lines of the body that the record at position k accounts for
Contribution(k) == SubSeq(Body, BodyOffset(k) + 1, BodyOffset(k) + Len(CommandLines(k)))

HasFullState(k) ==
    /\ Snapshot(k).backsight_angle # None
    /\ Snapshot(k).backsight_coord # None
    /\ Snapshot(k).instrument_height # None
    /\ Snapshot(k).rod_height # None

IsDV(line) == StartsWith(line, "DV ")
IsM(line) == StartsWith(line, "M ")
IsSS(line) == StartsWith(line, "SS ")

\* C7: when the conversion is done, every sideshot record that holds a full
\* machine state accounts for exactly one line of the body, a line that is
\* not empty and begins with DV, M or SS and ends with the heights column
\* when the record has no trailing comment.
C7_SideshotGivesOneLine ==
    pc = "done" =>
        \A k \in 1..Len(records) :
            (records[k].cls = "SideshotRecord" /\ HasFullState(k)) =>
                \E lines \in {Contribution(k)} :
                    /\ Len(lines) = 1
                    /\ lines[1] # ""
                    /\ IsDV(lines[1]) \/ IsM(lines[1]) \/ IsSS(lines[1])

\* C8: when the conversion is done, a sideshot whose foresight point is the
\* backsight point of its machine state accounts for a DV line with an
\* empty angle column, whatever the occurrence count of the point.
C8_BacksightShotIsDV ==
    pc = "done" =>
        \A k \in 1..Len(records) :
            (/\ records[k].cls = "SideshotRecord"
             /\ HasFullState(k)
             /\ records[k].FP = Val(Snapshot(k).backsight_coord)) =>
                \E lines \in {Contribution(k)} :
                    /\ Len(lines) = 1
                    /\ IsDV(lines[1])
                    /\ Slice(lines[1], 18, 33) = Repeat(" ", 15)

\* C9: when the conversion is done, a sideshot whose foresight point is not
\* the backsight point of its machine state accounts for an M line if the
\* occurrence count of the point over all records is more than 1, and for
\* an SS line otherwise.
C9_RepeatedShotIsM ==
    pc = "done" =>
        \A k \in 1..Len(records) :
            (/\ records[k].cls = "SideshotRecord"
             /\ HasFullState(k)
             /\ records[k].FP # Val(Snapshot(k).backsight_coord)) =>
                \E lines \in {Contribution(k)} :
                    /\ Len(lines) = 1
                    /\ IF DictGet(point_occurrence_count, records[k].FP) > 1
                       THEN IsM(lines[1])
                       ELSE IsSS(lines[1])

\* C10: for the file JB, MO, BK, LS, SS, when the conversion is done there
\* is a sideshot record of point 3 whose angle from the backsight is
\* 10-00-00 less 315-00-00.44, and the output has exactly one SS line, from
\* 1 with backsight 2 to 3, with the heights 1.5/0.2.
C10_EndToEnd ==
    (file = <<JB, MO, BK, LS, SS>> /\ pc = "done") =>
        /\ \E k \in 1..Len(records) :
              /\ records[k].cls = "SideshotRecord"
              /\ records[k].FP = "3"
              /\ HasFullState(k)
              /\ DMS_eq(DMS_sub(records[k].AR, Val(Snapshot(k).backsight_angle)),
                        DMS_sub(DMS(10, 0, 0), DMS(315, 0, 44)))
        /\ Cardinality({i \in 1..Len(dat_file_lines) : IsSS(dat_file_lines[i])}) = 1
        /\ \A i \in 1..Len(dat_file_lines) :
              IsSS(dat_file_lines[i]) =>
                  /\ StartsWith(dat_file_lines[i], "SS 1-2-3 ")
                  /\ Contains(dat_file_lines[i], " 1.5/0.2")

\* ------------------------------------------------------------------------
\* Properties of the resection blocks and of the records without output
\* ------------------------------------------------------------------------
\* write_commands has run, to its end or to an exception
Converted == pc = "done" \/ (pc = "commands" /\ error # "")

IsResection(k) == records[k].cls = "StorePointRecord" /\ records[k].resection

HasHeights(k) ==
    /\ Snapshot(k).instrument_height # None
    /\ Snapshot(k).rod_height # None

\* every record that needs a machine state for its lines holds one
Encodable ==
    \A k \in 1..Len(records) :
        /\ records[k].cls = "SideshotRecord" => HasFullState(k)
        /\ IsResection(k) => HasHeights(k)

IsDB(line) == StartsWith(line, "DB ")
IsDM(line) == StartsWith(line, "DM ")
IsDE(line) == line = "DE"

\* the n-th least member of a set of numbers
NthOf(S, n) == CHOOSE x \in S : Cardinality({y \in S : y < x}) = n - 1

\* the position in the body of the DB line of the n-th resection block
BeginOf(n) == NthOf({i \in 1..Len(Body) : IsDB(Body[i])}, n)

\* the lines of body from position i on are the block of the resection
\* store point sp with machine state ms: DB, a DM per reading, DE
IsBlockAt(body, i, sp, ms) ==
    /\ i + Len(sp.resection_readings) + 1 <= Len(body)
    /\ StartsWith(body[i], "DB " \o sp.PN)
    /\ \A r \in 1..Len(sp.resection_readings) :
          /\ StartsWith(body[i + r], "DM " \o sp.resection_readings[r].FP \o " ")
          /\ Slice(body[i + r], 18, 33) = RJust(DMS_str(sp.resection_readings[r].AR), 15)
          /\ Slice(body[i + r], 60, 75)
                = RJust(Heights(Val(ms.instrument_height), Val(ms.rod_height)), 15)
    /\ IsDE(body[i + Len(sp.resection_readings) + 1])

\* C11: when write_commands has run over records that all hold the machine
\* state their lines need, the body has one DB line per resection store
\* point, and the n-th of them begins the block of the n-th resection
\* store point: the DB line names its point, one DM line per reading
\* follows in reading order, with the direction of the reading and the
\* heights of the record's machine state, and then the DE line.
C11_ResectionBlocks ==
    (Converted /\ Encodable) =>
        /\ Cardinality({i \in 1..Len(Body) : IsDB(Body[i])})
              = Cardinality({k \in 1..Len(records) : IsResection(k)})
        /\ \A k \in 1..Len(records) :
              IsResection(k) =>
                  IsBlockAt(Body,
                            BeginOf(Cardinality({j \in 1..k : IsResection(j)})),
                            records[k], Snapshot(k))

\* the records that have lines in the body, and the lines of the body that
\* begin the lines of a record: a DV, M or SS line, or the DB of a block
OutputRecords ==
    {k \in 1..Len(records) : records[k].cls = "SideshotRecord" \/ IsResection(k)}

HeadLines ==
    {i \in 1..Len(Body) :
        IsDV(Body[i]) \/ IsM(Body[i]) \/ IsSS(Body[i]) \/ IsDB(Body[i])}

\* C12: when write_commands has run over records that all hold the machine
\* state their lines need, it has run to its end whatever other records
\* there are (job, mode setup, backsight, line of sight, GPS, store points
\* that are no resection, notes), and the body has nothing but the lines of
\* the sideshots and of the resection store points, in record order: every
\* line is empty or a DV, M, SS, DB, DM or DE line, and the n-th line that
\* begins a record's lines is a DB line exactly when the n-th record with
\* lines is a resection store point.
C12_OtherRecordsGiveNoLine ==
    (Converted /\ Encodable) =>
        /\ pc = "done"
        /\ \A i \in 1..Len(Body) :
              \/ Body[i] = ""
              \/ IsDV(Body[i]) \/ IsM(Body[i]) \/ IsSS(Body[i])
              \/ IsDB(Body[i]) \/ IsDM(Body[i]) \/ IsDE(Body[i])
        /\ Cardinality(HeadLines) = Cardinality(OutputRecords)
        /\ \A n \in 1..Cardinality(OutputRecords) :
              IsDB(Body[NthOf(HeadLines, n)])
                  <=> IsResection(NthOf(OutputRecords, n))

\* ------------------------------------------------------------------------
\* Properties of the store point records
\* ------------------------------------------------------------------------
IsReadingNote(note) == StartsWith(note, "--Reading")

\* the text of a reading note between "Reading " and the colon after it
ReadingName(note) == SplitFirst(RemovePrefix(note, "--Reading "), ":")

\* the notes of a store point after the third that begin with "Reading"
ReadingNotes(notes) == SelectSeq(SubSeq(notes, 4, Len(notes)), IsReadingNote)

\* the readings of the store point at k are one per reading note, in note
\* order and by name, when it is a resection, and none otherwise
ReadingsFollowNotes(k) ==
    IF records[k].resection
    THEN /\ Len(records[k].resection_readings) = Len(ReadingNotes(records[k].notes))
         /\ \A r \in 1..Len(records[k].resection_readings) :
               records[k].resection_readings[r].name
                   = ReadingName(ReadingNotes(records[k].notes)[r])
    ELSE records[k].resection_readings = <<>>

\* C13, as stated: a store point record is a resection exactly when it has
\* at least three notes and the third contains the token "Resection"; its
\* readings are then one per later note beginning with "Reading", in note
\* order, named by the text between "Reading " and the colon, and there
\* are no readings otherwise.
C13_ResectionByToken ==
    \A k \in 1..Len(records) :
        records[k].cls = "StorePointRecord" =>
            /\ records[k].resection
                  <=> (/\ Len(records[k].notes) >= 3
                       /\ Contains(records[k].notes[3], "Resection"))
            /\ ReadingsFollowNotes(k)

\* C13, amended: a store point record is a resection exactly when it has
\* at least three notes and the third begins with "--Resection:"; its
\* readings are then one per later note beginning with "--Reading", in
\* note order, named by the text between "Reading " and the colon, and
\* there are no readings otherwise.
C13_ResectionByPrefix ==
    \A k \in 1..Len(records) :
        records[k].cls = "StorePointRecord" =>
            /\ records[k].resection
                  <=> (/\ Len(records[k].notes) >= 3
                       /\ StartsWith(records[k].notes[3], "--Resection:"))
            /\ ReadingsFollowNotes(k)

C13_Witness ==
    \E k \in 1..Len(records) :
        /\ records[k].cls = "StorePointRecord"
        /\ records[k].resection
        /\ Len(records[k].notes) > 5
        /\ Len(records[k].resection_readings) = 2
        /\ records[k].resection_readings[1].name = "A"
        /\ records[k].resection_readings[2].name = "B"

\* C14: every store point record has resection readings exactly when its
\* resection flag is true.
C14_ReadingsIffResection ==
    \A k \in 1..Len(records) :
        records[k].cls = "StorePointRecord" =>
            (records[k].resection_readings # <<>> <=> records[k].resection)

\* ------------------------------------------------------------------------
\* Properties of the coordinates and of the coordinate prelude
\* ------------------------------------------------------------------------
\* the records whose coordinate is kept, the records that are counted, and
\* the point name under which a record is counted
AggregatedRecords ==
    {k \in 1..Len(records) :
        \/ records[k].cls = "GPSRecord"
        \/ (records[k].cls = "StorePointRecord" /\ ~records[k].resection)}

CountedRecords ==
    AggregatedRecords \cup {k \in 1..Len(records) : records[k].cls = "SideshotRecord"}

PointName(k) ==
    IF records[k].cls = "SideshotRecord" THEN records[k].FP ELSE records[k].PN

\* the processed coordinate of a record: the one of the first note of a
\* GPS record, the one of the line of a store point
Processed(record) ==
    IF record.cls = "GPSRecord"
    THEN Coordinate(DecimalOf(get_param(record.notes[1], "N ")),
                    DecimalOf(get_param(record.notes[1], "E ")),
                    DecimalOf(get_param(record.notes[1], "EL")))
    ELSE Coordinate(record.N, record.E, record.EL)

\* the processed coordinates of the records of the set named p, in record
\* order
TriplesOf(named) ==
    [n \in 1..Cardinality(named) |-> Processed(records[NthOf(named, n)])]

Keys(d) == {d[i].key : i \in 1..Len(d)}

\* C15: once the dataset is built, coordinates has one entry per point name
\* of a GPS record or a store point that is no resection, holding the
\* processed coordinates of those records of that name in record order
\* (sideshots and resection store points add none), and the occurrence
\* count of a name is the number of GPS records and non-resection store
\* points of that name plus the number of sideshots to it, names without
\* such a record having no count.
C15_AggregationRule ==
    pc # "parse" =>
        /\ Keys(coordinates) = {PointName(k) : k \in AggregatedRecords}
        /\ Len(coordinates) = Cardinality(Keys(coordinates))
        /\ \A i \in 1..Len(coordinates) :
              coordinates[i].value
                  = TriplesOf({k \in AggregatedRecords :
                                  PointName(k) = coordinates[i].key})
        /\ Keys(point_occurrence_count) = {PointName(k) : k \in CountedRecords}
        /\ Len(point_occurrence_count) = Cardinality(Keys(point_occurrence_count))
        /\ \A i \in 1..Len(point_occurrence_count) :
              point_occurrence_count[i].value
                  = Cardinality({k \in CountedRecords :
                                    PointName(k) = point_occurrence_count[i].key})

C15_Witness ==
    /\ pc # "parse"
    /\ \E k \in 1..Len(records) : IsResection(k) /\ records[k].PN = "3"
    /\ \E k \in 1..Len(records) : records[k].cls = "GPSRecord" /\ records[k].PN = "3"
    /\ DictHas(coordinates, "3")
    /\ Len(DictGet(coordinates, "3")) = 1
    /\ DictGet(point_occurrence_count, "3") = 1

\* the records that bring a point name into coordinates: the first
\* aggregated record of each name
FirstSeen ==
    {k \in AggregatedRecords :
        \A j \in AggregatedRecords : j < k => PointName(j) # PointName(k)}

\* the positions of the coordinate lines and of the command lines
CoordinateLines ==
    {i \in 1..Len(dat_file_lines) : StartsWith(dat_file_lines[i], "C  ")}

BodyLines ==
    {i \in 1..Len(dat_file_lines) :
        \/ IsDV(dat_file_lines[i]) \/ IsM(dat_file_lines[i]) \/ IsSS(dat_file_lines[i])
        \/ IsDB(dat_file_lines[i]) \/ IsDM(dat_file_lines[i]) \/ IsDE(dat_file_lines[i])}

\* the coordinate line of the mean of the processed coordinates of records
MeanLine(name, avg) == _c(name, avg.northing, avg.easting, avg.elevation)

\* C16: once the coordinate prelude is written, the output has one C line
\* per point name of coordinates, the n-th of them for the n-th name to
\* appear among the GPS records and the store points that are no
\* resection, with the means of that point's coordinates, and every C line
\* comes before every DV, M, SS, DB, DM and DE line.
C16_OneCoordinateLinePerPoint ==
    pc \in {"commands", "done"} =>
        /\ Cardinality(CoordinateLines) = Cardinality(Keys(coordinates))
        /\ Cardinality(CoordinateLines) = Cardinality(FirstSeen)
        /\ \A n \in 1..Cardinality(FirstSeen) :
              \E name \in {PointName(NthOf(FirstSeen, n))} :
                  dat_file_lines[NthOf(CoordinateLines, n)]
                      = MeanLine(name,
                            AvgCoordinate_avg(TriplesOf(
                                {k \in AggregatedRecords : PointName(k) = name})))
        /\ \A i \in CoordinateLines : \A j \in BodyLines : i < j

C16_Witness ==
    /\ pc \in {"commands", "done"}
    /\ Cardinality(CoordinateLines) = 2
    /\ StartsWith(dat_file_lines[NthOf(CoordinateLines, 1)], "C  9 ")
    /\ StartsWith(dat_file_lines[NthOf(CoordinateLines, 2)], "C  3 ")

\* the fields of a coordinate
Fields == {"northing", "easting", "elevation"}

\* the most fraction digits of the field of the coordinates values
RECURSIVE MostDigits(_, _)
MostDigits(values, field) ==
    IF Len(values) = 0 THEN 0
    ELSE Max(Head(values)[field].exp, MostDigits(Tail(values), field))

\* the Decimal d in units of 10^-e, and the total of the field of values
Scaled(d, e) == d.coef * Pow10(e - d.exp)

RECURSIVE Total(_, _, _)
Total(values, field, e) ==
    IF Len(values) = 0 THEN 0
    ELSE Scaled(Head(values)[field], e) + Total(Tail(values), field, e)

\* the quotient q is the arithmetic mean of the field of values
IsMeanOf(q, values, field, e) ==
    /\ q.den = Len(values)
    /\ q.num.exp <= e
    /\ Scaled(q.num, e) = Total(values, field, e)

\* two means are the same number in every field
SameMean(a, b) ==
    \A field \in Fields :
        DecimalEq([coef |-> a[field].num.coef * b[field].den, exp |-> a[field].num.exp],
                  [coef |-> b[field].num.coef * a[field].den, exp |-> b[field].num.exp])

\* the coordinate whose fields are all the whole number n
Whole(n) ==
    Coordinate([coef |-> n, exp |-> 0], [coef |-> n, exp |-> 0], [coef |-> n, exp |-> 0])

SameCoordinate(a, b) == \A field \in Fields : DecimalEq(a[field], b[field])

\* the quotient of the Decimal num by the whole number den
Quotient(num, den) == [num |-> num, den |-> den]

\* C17: the avg of every point of coordinates is, in each field, the sum
\* of the field over the coordinates of the point divided by their number;
\* it is the same number for the coordinates in any other order; and for
\* the coordinates (1,1,1), (3,3,3) it is (2,2,2).
C17_AvgIsArithmeticMean ==
    \A i \in 1..Len(coordinates) :
        \E values \in {coordinates[i].value} :
            \E avg \in {AvgCoordinate_avg(values)} :
                /\ \A field \in Fields :
                      IsMeanOf(avg[field], values, field, MostDigits(values, field))
                /\ \A perm \in Permutations(1..Len(values)) :
                      SameMean(avg, AvgCoordinate_avg(
                                        [j \in 1..Len(values) |-> values[perm[j]]]))
                /\ (/\ Len(values) = 2
                    /\ SameCoordinate(values[1], Whole(1))
                    /\ SameCoordinate(values[2], Whole(3)))
                      => SameMean(avg, [field \in Fields |->
                                           Quotient([coef |-> 2, exp |-> 0], 1)])

C17_Witness ==
    \E i \in 1..Len(coordinates) :
        /\ Len(coordinates[i].value) = 2
        /\ SameCoordinate(coordinates[i].value[1], Whole(1))
        /\ SameCoordinate(coordinates[i].value[2], Whole(3))

\* ------------------------------------------------------------------------
\* Properties of the errors
\* ------------------------------------------------------------------------
\* the record at k needs a machine state for its lines and lacks a field
LacksState(k) ==
    \/ records[k].cls = "SideshotRecord" /\ ~HasFullState(k)
    \/ IsResection(k) /\ ~HasHeights(k)

\* C18: when write_commands has run over records among which a sideshot
\* holds a machine state without backsight angle, backsight point,
\* instrument height or rod height (whether its line would be a DV, an M or
\* an SS line), or a resection store point holds one without instrument
\* height or rod height, it has ended with an exception, and the body has
\* no line of that record or of a later one: it has at most as many lines
\* that begin a record's lines as there are records with lines before it,
\* and no DB line if the record is the first resection store point.
C18_MissingStateFails ==
    Converted =>
        \A k \in 1..Len(records) :
            LacksState(k) =>
                /\ pc = "commands"
                /\ error # ""
                /\ Cardinality(HeadLines)
                      <= Cardinality({j \in OutputRecords : j < k})
                /\ Cardinality({i \in 1..Len(Body) : IsDB(Body[i])})
                      <= Cardinality({j \in 1..(k - 1) : IsResection(j)})

C18_Witness ==
    /\ Converted
    /\ error = "AssertionError"
    /\ \E k \in 1..Len(records) :
          /\ records[k].cls = "SideshotRecord"
          /\ Snapshot(k).backsight_coord = Some(records[k].FP)
          /\ Snapshot(k).instrument_height = None
          /\ Snapshot(k).rod_height # None

\* ------------------------------------------------------------------------
\* Lines that lack a field
\* ------------------------------------------------------------------------
\* the prefixes that from_string of the class of a record code reads with
\* get_param
RequiredFields(code) ==
    CASE code = "JB" -> {"NM", "DT", "TM"}
      [] code = "BK" -> {"OP", "BP", "BS", "BC"}
      [] code = "SS" -> {"OP", "FP", "AR", "ZE", "SD"}
      [] code = "MO" -> {"AD", "UN", "SF", "EC", "AU"}
      [] code = "OC" -> {"OP", "N ", "E ", "EL"}
      [] code = "OF" -> {"AR", "ZE", "SD"}
      [] code = "SP" -> {"PN", "N ", "E ", "EL"}
      [] code = "GPS" -> {"PN", "LA", "LN", "EL"}
      [] OTHER -> {}

\* the line lacks a prefix that its record reads with get_param
LacksField(line) ==
    \E prefix \in RequiredFields(record_code(line)) : ~Contains(line, prefix)

\* the lines of the file that start a record and that the loop of parse has
\* handed to parse_instruction: all but the one still pending
ParsedLines == {i \in StartLines(file) : i < LastStart(file)}

\* C19: when parse has handed a line that lacks a required field prefix to
\* parse_instruction, parse has failed: it has stopped with an exception,
\* and the records hold no record of that line.
C19_MissingFieldFails ==
    \A i \in ParsedLines :
        LacksField(file[i]) =>
            /\ pc = "parse"
            /\ error # ""
            /\ \A k \in 1..Len(records) : records[k].index # i - 1

\* ------------------------------------------------------------------------
\* GPS notes
\* ------------------------------------------------------------------------
\* the notes have the multi-epoch shape: the 3rd begins "--Valid Readings:"
\* and the notes reach to the one of the average age, the 16th
MultiEpoch(notes) ==
    /\ Len(notes) >= 16
    /\ StartsWith(notes[3], "--Valid Readings:")

\* the notes have the single-epoch shape: the 3rd begins "--HRMS"
SingleEpoch(notes) ==
    /\ Len(notes) >= 3
    /\ ~StartsWith(notes[3], "--Valid Readings:")
    /\ StartsWith(notes[3], "--HRMS")

\* the reading count of the note "--Valid Readings: 10 of 10"
ReadingCount(note) ==
    IntOf(SplitFirst(Strip(RemovePrefix(note, "--Valid Readings:")), " "))

\* the STATUS of the single-epoch note, up to the next comma
StatusOf(note) ==
    SplitFirst(SliceFrom(note, Find(note, "STATUS:") + Len("STATUS:")), ",")

NoDataLines == \A i \in 1..Len(file) : StartsWith(file[i], "--")

\* C21: once an input without data lines is parsed, the dataset has no
\* records, no coordinates and no occurrence counts, the conversion raises
\* no exception, and when it is done the output is empty.
C21_EmptyInputEmptyOutput ==
    (NoDataLines /\ pc # "parse") =>
        /\ records = <<>>
        /\ coordinates = <<>>
        /\ point_occurrence_count = <<>>
        /\ error = ""
        /\ pc = "done" => \A i \in 1..Len(dat_file_lines) : dat_file_lines[i] = ""

\* ------------------------------------------------------------------------
\* Properties of the angles
\* ------------------------------------------------------------------------
\* C22: when the string of a valid angle has been given to from_str, no
\* exception has been raised and the angle made equals the one the string is
\* of: the same degrees and minutes, the seconds within 0.00001.
C22_FormatParseRoundTrip ==
    (dms.op = "from_str" /\ dms.string = DMS_str(dms.self)) =>
        /\ dms.exc = ""
        /\ dms.result # None
        /\ DMS_eq(Val(dms.result), dms.self)

\* the size of an angle in hundredths of a second, and the full circle
Hundredths(angle) ==
    angle.degrees * 3600 * SecUnit + angle.minutes * 60 * SecUnit + angle.seconds

FullCircle == 360 * 3600 * SecUnit

\* C23: the difference of two valid angles is an angle of at least 0 and of
\* less than 360 degrees, none of its parts being negative.
C23_DifferenceInRange ==
    dms.op = "sub" =>
        /\ Val(dms.result).degrees >= 0
        /\ Val(dms.result).minutes >= 0
        /\ Val(dms.result).seconds >= 0
        /\ Hundredths(Val(dms.result)) >= 0
        /\ Hundredths(Val(dms.result)) < FullCircle

\* the angle has whole seconds; its size in seconds; the degrees, minutes
\* and seconds of a number of seconds
WholeSeconds(angle) == angle.seconds % SecUnit = 0
TotalSeconds(angle) == Hundredths(angle) \div SecUnit
Decomposed(t) == DMS(t \div 3600, (t % 3600) \div 60, (t % 60) * SecUnit)

\* C24: the difference of two valid angles with whole seconds is the angle
\* of (seconds of self - seconds of other) mod 1,296,000 seconds, in
\* degrees, minutes below 60 and seconds below 60 (45-34-56 minus 25-45-39
\* being 19-49-17), and the difference of an angle and itself is the zero
\* angle.
C24_DifferenceOfWholeSeconds ==
    (dms.op = "sub" /\ WholeSeconds(dms.self) /\ WholeSeconds(dms.other)) =>
        /\ Val(dms.result)
              = Decomposed((TotalSeconds(dms.self) - TotalSeconds(dms.other))
                              % (FullCircle \div SecUnit))
        /\ (dms.self = DMS(45, 34, 5600) /\ dms.other = DMS(25, 45, 3900))
              => Val(dms.result) = DMS(19, 49, 1700)
        /\ dms.self = dms.other => Val(dms.result) = DMS(0, 0, 0)

\* C25: every angle made by from_str of a packed decimal string or by the
\* difference of two valid angles has minutes from 0 to 59 and seconds of
\* at least 0 and less than 60.
C25_AnglesNormalized ==
    ((dms.op = "from_str" /\ dms.exc = "") \/ dms.op = "sub") =>
        /\ Val(dms.result).minutes \in 0..59
        /\ Val(dms.result).seconds >= 0
        /\ Val(dms.result).seconds < 60 * SecUnit

\* ------------------------------------------------------------------------
\* Properties of the point name substitution
\* ------------------------------------------------------------------------
\* the stripped line of the file that the record at k was made of
OwnLine(k) == Strip(file[records[k].index + 1])

\* the line names a point after "--CP/": the name up to the first space
NamesPoint(line) == Contains(line, "--" \o substitute_point_comment_prefix)
NewName(line) ==
    Strip(SplitFirst(SliceFrom(line, Find(line, "--" \o substitute_point_comment_prefix)
                                     + Len("--" \o substitute_point_comment_prefix)),
                     " "))

\* the fields of the record at k other than the point name are those of
\* the line own as it stands
OtherFieldsOf(k, own) ==
    IF records[k].cls = "SideshotRecord"
    THEN /\ records[k].OP = get_param(own, "OP")
         /\ records[k].AR = DMS_from_str(get_param(own, "AR"))
         /\ records[k].ZE = DMS_from_str(get_param(own, "ZE"))
         /\ records[k].SD = DecimalOf(get_param(own, "SD"))
    ELSE /\ records[k]._LA = DecimalOf(get_param(own, "LA"))
         /\ records[k]._LN = DecimalOf(get_param(own, "LN"))

\* C26: a sideshot or GPS line with a point name after "--CP/" that parse
\* has handed to parse_instruction has a record; the point name of the
\* record of such a line is the name after the prefix up to the first
\* space, and its other fields (occupied point, angles, distance, latitude
\* and longitude) are those of the line as it stands; the record of a line
\* without "--CP/" has the point name and the text of its line.
C26_SubstitutedPointName ==
    /\ \A i \in ParsedLines :
          (record_code(file[i]) \in {"SS", "GPS"} /\ NamesPoint(file[i]))
              => \E k \in 1..Len(records) : records[k].index = i - 1
    /\ \A k \in 1..Len(records) :
          records[k].cls \in {"SideshotRecord", "GPSRecord"} =>
              \E own \in {OwnLine(k)} :
                  /\ OtherFieldsOf(k, own)
                  /\ IF NamesPoint(own)
                     THEN PointName(k) = NewName(own)
                     ELSE /\ records[k].content = own
                          /\ PointName(k)
                               = get_param(own, IF records[k].cls = "GPSRecord"
                                                THEN "PN" ELSE "FP")

\* ------------------------------------------------------------------------
\* Properties of the fields of the records
\* ------------------------------------------------------------------------
\* the text after the first "--" of a line, if there is one
TrailingComment(line) ==
    IF Contains(line, "--") THEN Some(SliceFrom(line, Find(line, "--") + 2))
    ELSE None

\* C27: the content of every record is the stripped text of the line the
\* record starts at, and its comment is the text after the first "--" of
\* that line, or nothing when the line has no "--"; neither is the text of
\* one of its notes.
C27_ContentAndCommentOfOwnLine ==
    \A k \in 1..Len(records) :
        /\ records[k].content = OwnLine(k)
        /\ records[k].comment = TrailingComment(OwnLine(k))

\* the Decimal of a field of a line
FieldOf(line, prefix) == DecimalOf(get_param(line, prefix))

\* C28: the processed northing, easting and elevation of a GPS record are
\* those of its first note, and its raw latitude, longitude and elevation
\* (_LA, _LN, _EL) are those of the record's own line.
C28_GPSProcessedAndRawFields ==
    \A k \in 1..Len(records) :
        records[k].cls = "GPSRecord" =>
            /\ records[k].N = FieldOf(records[k].notes[1], "N ")
            /\ records[k].E = FieldOf(records[k].notes[1], "E ")
            /\ records[k].EL = FieldOf(records[k].notes[1], "EL")
            /\ records[k]._LA = FieldOf(OwnLine(k), "LA")
            /\ records[k]._LN = FieldOf(OwnLine(k), "LN")
            /\ records[k]._EL = FieldOf(OwnLine(k), "EL")

\* ------------------------------------------------------------------------
\* Properties of the dataset's dictionaries
\* ------------------------------------------------------------------------
\* the number of coordinates recorded for point p
CoordinatesOf(p) == IF DictHas(coordinates, p) THEN Len(DictGet(coordinates, p)) ELSE 0

\* the number of Sideshot records whose foresight point is p
SideshotsTo(p) ==
    Cardinality({k \in 1..Len(records) :
                    records[k].cls = "SideshotRecord" /\ records[k].FP = p})

\* the occurrence count of point p, 0 when p is not a key
OccurrencesOf(p) ==
    IF DictHas(point_occurrence_count, p) THEN DictGet(point_occurrence_count, p) ELSE 0

\* the point names of the dataset
DatasetPoints ==
    Keys(coordinates) \cup Keys(point_occurrence_count)
    \cup {records[k].FP : k \in {j \in 1..Len(records) : records[j].cls = "SideshotRecord"}}

\* C29: once the dataset is built, every point name of coordinates has a
\* non-empty list of coordinates and is a key of point_occurrence_count,
\* every occurrence count is at least 1, and the occurrence count of every
\* point is the number of its coordinates plus the number of Sideshot
\* records with that foresight point.
C29_DatasetInvariants ==
    pc # "parse" =>
        /\ \A i \in 1..Len(coordinates) :
              /\ Len(coordinates[i].value) >= 1
              /\ DictHas(point_occurrence_count, coordinates[i].key)
        /\ \A i \in 1..Len(point_occurrence_count) :
              point_occurrence_count[i].value >= 1
        /\ \A p \in DatasetPoints :
              OccurrencesOf(p) = CoordinatesOf(p) + SideshotsTo(p)

\* a dataset with a point that has a coordinate and is also the foresight
\* point of a sideshot
C29_Witness ==
    /\ pc # "parse"
    /\ \E p \in DatasetPoints :
          CoordinatesOf(p) >= 1 /\ SideshotsTo(p) >= 1 /\ OccurrencesOf(p) >= 2

\* ------------------------------------------------------------------------
\* Properties of the record sequence
\* ------------------------------------------------------------------------
\* the lines after the first that begin with "--"
LaterNoteLines == {i \in 2..Len(file) : StartsWith(file[i], "--")}

\* the line that starts the record pending when line i is read
PendingAt(i) ==
    CHOOSE s \in StartLines(file) :
        s < i /\ \A t \in StartLines(file) : t < i => t <= s

\* the records that start at line s
RecordsAt(s) == {k \in 1..Len(records) : records[k].index = s - 1}

\* C30: a NoteRecord is the first record only, and only of a file whose
\* first line begins with "--"; a later line that begins with "--" starts
\* no record and is a note of the record pending when it is read, at its
\* place among that record's notes; the indices of the records are strictly
\* increasing.
C30_NotesAndRecordOrder ==
    /\ \A k \in 1..Len(records) :
          records[k].cls = "NoteRecord" =>
              k = 1 /\ records[k].index = 0 /\ StartsWith(file[1], "--")
    /\ \A i \in LaterNoteLines :
          /\ RecordsAt(i) = {}
          /\ \A k \in RecordsAt(PendingAt(i)) :
                /\ Len(records[k].notes) >= i - PendingAt(i)
                /\ records[k].notes[i - PendingAt(i)] = file[i]
          /\ PendingAt(i) = LastStart(file) =>
                /\ Len(comment_lines) >= i - PendingAt(i)
                /\ comment_lines[i - PendingAt(i)] = file[i]
    /\ \A k \in 1..(Len(records) - 1) : records[k].index < records[k + 1].index

\* a file that begins with a note and goes on with a second one: the first
\* record is a NoteRecord that holds the second as its note, and a record
\* follows it
C30_Witness ==
    /\ Len(records) >= 2
    /\ records[1].cls = "NoteRecord"
    /\ 2 \in LaterNoteLines
    /\ Len(records[1].notes) = 1
    /\ records[2].index = 2

====
